---- MODULE Spec2Model ----
(***************************************************************************)
(* The trivia-board game engine of the repository, in its three            *)
(* implementations:                                                        *)
(*   "lwc"        force-app/main/default/lwc/jeopardyGame/jeopardyGame.js  *)
(*   "standalone" scripts/Jeaopardy_Claude/jeopardy_game_standalone.tsx    *)
(*   "ai"         scripts/Jeaopardy_Claude/jeopardy_ai_version.tsx         *)
(* Each handler of a component is an operator from the component's fields  *)
(* (a record) to the fields after the handler ran; the actions are the     *)
(* input events the rendered view lets through to the handlers.            *)
(*                                                                         *)
(* Encoding of JavaScript values:                                          *)
(*   string that the code parses or builds  sequence of one-character      *)
(*                                          strings                        *)
(*   number that may be NaN                  [nan |-> BOOLEAN, n |-> Int]  *)
(*   null                                    Null                          *)
(*   undefined in an array-typed field       Undefined                     *)
(*   array                                   sequence (index i of the code *)
(*                                           is index i + 1 here)          *)
(***************************************************************************)
EXTENDS Integers, Sequences, FiniteSets, TLC

\* Bounds of the explored inputs: the board positions a player clicks are
\* the categories 0..MaxCat and the questions 0..MaxQ of each, and a session
\* resolves at most MaxResolved questions.  The lifecycle callbacks of the
\* Lightning component bind at most MaxBinds functions, and a record-lookup
\* component makes at most MaxRequests calls.
MaxCat == 1
MaxQ == 1
MaxResolved == 2
MaxBinds == 3
MaxRequests == 2

VARIABLES
  variant,            \* which component is mounted
  gameState,          \* 'setup' | 'generating' | 'playing'
  numTeams,
  teams,
  currentTeam,
  selectedQuestion,
  showAnswer,
  answeredQuestions,
  categories,
  isGenerating,       \* field of the generative component only
  pending,            \* fetch requests of generateQuestions awaiting their outcome
  alertMsg,           \* what the last step showed with alert() or a toast, "" if nothing
  lastOp,             \* the input event of the last step
  connected,          \* whether the component is in the document
  listeners,          \* the component's functions registered for keydown
  nextBound,          \* the identity of the next function bind() returns
  lookup,             \* the fields of the mounted record-lookup component
  requests,           \* the Apex calls of that component not yet done with
  issued,             \* how many calls it has made
  shownFor,           \* the call whose outcome was written to its fields last
  jobs                \* the promise jobs of that component waiting to run, in order

vars == <<variant, gameState, numTeams, teams, currentTeam, selectedQuestion,
          showAnswer, answeredQuestions, categories, isGenerating, pending,
          alertMsg, lastOp, connected, listeners, nextBound,
          lookup, requests, issued, shownFor, jobs>>

\* The fields of the game component and its outstanding fetches.
game == <<gameState, numTeams, teams, currentTeam, selectedQuestion, showAnswer,
          answeredQuestions, categories, isGenerating, pending>>

\* The variables of the record-lookup components.
lookupVars == <<lookup, requests, issued, shownFor, jobs>>

\* The variables of the component's attachment to the document.
lifecycle == <<connected, listeners, nextBound>>

Variants == {"lwc", "standalone", "ai"}

Null == [null |-> TRUE]

Undefined == <<[undefined |-> TRUE]>>

\* The value of lookup while no record-lookup component is mounted.
Unmounted == [mounted |-> FALSE]

----------------------------------------------------------------------------
(* JavaScript built-ins the handlers use *)

Digits == {"0", "1", "2", "3", "4", "5", "6", "7", "8", "9"}

DigitVal(ch) ==
  CASE ch = "0" -> 0 [] ch = "1" -> 1 [] ch = "2" -> 2 [] ch = "3" -> 3
    [] ch = "4" -> 4 [] ch = "5" -> 5 [] ch = "6" -> 6 [] ch = "7" -> 7
    [] ch = "8" -> 8 [] ch = "9" -> 9

DigitChar(d) ==
  CASE d = 0 -> "0" [] d = 1 -> "1" [] d = 2 -> "2" [] d = 3 -> "3"
    [] d = 4 -> "4" [] d = 5 -> "5" [] d = 6 -> "6" [] d = 7 -> "7"
    [] d = 8 -> "8" [] d = 9 -> "9"

NaN == [nan |-> TRUE, n |-> 0]

Num(n) == [nan |-> FALSE, n |-> n]

\* The longest prefix of str made of decimal digits.
RECURSIVE DigitPrefix(_)
DigitPrefix(str) ==
  IF str = <<>> \/ Head(str) \notin Digits THEN <<>>
  ELSE <<Head(str)>> \o DigitPrefix(Tail(str))

\* The value of a sequence of decimal digits, acc being the value so far.
RECURSIVE DigitsValue(_, _)
DigitsValue(str, acc) ==
  IF str = <<>> THEN acc
  ELSE DigitsValue(Tail(str), 10 * acc + DigitVal(Head(str)))

\* The 25 characters parseInt and trim skip: the white space of the language
\* (tab, vertical tab, form feed, U+FEFF and the space separators: space,
\* U+00A0, U+1680, U+2000 to U+200A, U+202F, U+205F, U+3000) and its line
\* terminators (line feed, carriage return, U+2028, U+2029).  A character
\* that a string of this module cannot hold is written as the name of its
\* code point.
WhiteSpace ==
  {"\t", "", "\f", "﻿", " ", " ", " ",
   "U+2000", "U+2001", "U+2002", "U+2003", "U+2004", "U+2005", "U+2006",
   "U+2007", "U+2008", "U+2009", "U+200A", "U+202F", "U+205F", "U+3000",
   "\n", "\r", "U+2028", "U+2029"}

RECURSIVE TrimStart(_)
TrimStart(str) ==
  IF str # <<>> /\ Head(str) \in WhiteSpace THEN TrimStart(Tail(str)) ELSE str

HexLetters ==
  {"a", "b", "c", "d", "e", "f", "A", "B", "C", "D", "E", "F"}

\* The digits of a radix, 10 or 16.
RadixDigits(radix) == IF radix = 16 THEN Digits \cup HexLetters ELSE Digits

RadixDigitVal(ch) ==
  CASE ch \in Digits -> DigitVal(ch)
    [] ch \in {"a", "A"} -> 10 [] ch \in {"b", "B"} -> 11
    [] ch \in {"c", "C"} -> 12 [] ch \in {"d", "D"} -> 13
    [] ch \in {"e", "E"} -> 14 [] ch \in {"f", "F"} -> 15

\* The longest prefix of str made of digits of the radix.
RECURSIVE RadixPrefix(_, _)
RadixPrefix(str, radix) ==
  IF str = <<>> \/ Head(str) \notin RadixDigits(radix) THEN <<>>
  ELSE <<Head(str)>> \o RadixPrefix(Tail(str), radix)

\* The value of a sequence of digits of the radix, acc being the value so far.
RECURSIVE RadixValue(_, _, _)
RadixValue(str, radix, acc) ==
  IF str = <<>> THEN acc
  ELSE RadixValue(Tail(str), radix, radix * acc + RadixDigitVal(Head(str)))

\* parseInt(str) with no radix given: leading white space is skipped, one
\* sign is read, a 0x or 0X that follows selects radix 16 and is dropped,
\* radix 10 otherwise; then the longest run of digits of the radix is read
\* and what follows is ignored; NaN when there is no digit.
parseInt(str) ==
  LET t == TrimStart(str)
      neg == t # <<>> /\ Head(t) = "-"
      u == IF t # <<>> /\ Head(t) \in {"-", "+"} THEN Tail(t) ELSE t
      hex == Len(u) >= 2 /\ u[1] = "0" /\ u[2] \in {"x", "X"}
      radix == IF hex THEN 16 ELSE 10
      ds == RadixPrefix(IF hex THEN SubSeq(u, 3, Len(u)) ELSE u, radix)
  IN IF ds = <<>> THEN NaN
     ELSE Num(IF neg THEN 0 - RadixValue(ds, radix, 0)
              ELSE RadixValue(ds, radix, 0))

\* a || b for a number a: b when a is NaN or 0.
OrElse(a, b) == IF a.nan \/ a.n = 0 THEN Num(b) ELSE a

\* Math.min and Math.max of an integer and a number that is not NaN.
MathMin(a, b) == IF b.n < a THEN b ELSE Num(a)

MathMax(a, b) == IF b.n > a THEN b ELSE Num(a)

\* String(n) of a non-negative integer, as the template literals produce it.
RECURSIVE NumToStr(_)
NumToStr(n) ==
  IF n < 10 THEN <<DigitChar(n)>>
  ELSE NumToStr(n \div 10) \o <<DigitChar(n % 10)>>

\* str.split(sep) for a one-character separator.
RECURSIVE Split(_, _)
Split(str, sep) ==
  IF str = <<>> THEN << <<>> >>
  ELSE LET rest == Split(Tail(str), sep)
       IN IF Head(str) = sep THEN << <<>> >> \o rest
          ELSE << <<Head(str)>> \o Head(rest) >> \o Tail(rest)

\* Number(str) for a string without white space or sign: 0 for the empty
\* string, the decimal value of a string of digits, NaN for anything else.
Number(str) ==
  IF str = <<>> THEN Num(0)
  ELSE IF DigitPrefix(str) = str THEN Num(DigitsValue(str, 0))
  ELSE NaN

\* `Team ${i}`
TeamName(i) == "Team " \o ToString(i)

\* new Set([...set, key]) and set.add(key)
SetAdd(set, key) == set \cup {key}

----------------------------------------------------------------------------
(* The boards *)

Lwc_initializeCategories ==
  <<
    [name |-> "Science", id |-> 0, questions |-> <<
      [value |-> 200, question |-> "This planet is known as the Red Planet",
       answer |-> "What is Mars?", id |-> <<"0", "-", "0">>],
      [value |-> 400, question |-> "H2O is the chemical formula for this substance",
       answer |-> "What is water?", id |-> <<"0", "-", "1">>],
      [value |-> 600, question |-> "This force keeps us grounded on Earth",
       answer |-> "What is gravity?", id |-> <<"0", "-", "2">>],
      [value |-> 800, question |-> "The human body has this many bones",
       answer |-> "What is 206?", id |-> <<"0", "-", "3">>],
      [value |-> 1000, question |-> "This is the speed of light in meters per second",
       answer |-> "What is 299,792,458?", id |-> <<"0", "-", "4">>]
    >>],
    [name |-> "History", id |-> 1, questions |-> <<
      [value |-> 200, question |-> "This war ended in 1945",
       answer |-> "What is World War II?", id |-> <<"1", "-", "0">>],
      [value |-> 400, question |-> "The Declaration of Independence was signed in this year",
       answer |-> "What is 1776?", id |-> <<"1", "-", "1">>],
      [value |-> 600, question |-> "This ancient wonder is located in Egypt",
       answer |-> "What are the Pyramids (of Giza)?", id |-> <<"1", "-", "2">>],
      [value |-> 800, question |-> "This empire was ruled by Julius Caesar",
       answer |-> "What is the Roman Empire?", id |-> <<"1", "-", "3">>],
      [value |-> 1000, question |-> "The Berlin Wall fell in this year",
       answer |-> "What is 1989?", id |-> <<"1", "-", "4">>]
    >>],
    [name |-> "Geography", id |-> 2, questions |-> <<
      [value |-> 200, question |-> "This is the largest ocean on Earth",
       answer |-> "What is the Pacific Ocean?", id |-> <<"2", "-", "0">>],
      [value |-> 400, question |-> "This country has the most population",
       answer |-> "What is India (or China)?", id |-> <<"2", "-", "1">>],
      [value |-> 600, question |-> "This is the capital of Australia",
       answer |-> "What is Canberra?", id |-> <<"2", "-", "2">>],
      [value |-> 800, question |-> "This river is the longest in the world",
       answer |-> "What is the Nile?", id |-> <<"2", "-", "3">>],
      [value |-> 1000, question |-> "This is the smallest country in the world",
       answer |-> "What is Vatican City?", id |-> <<"2", "-", "4">>]
    >>],
    [name |-> "Pop Culture", id |-> 3, questions |-> <<
      [value |-> 200, question |-> "This streaming service created 'Stranger Things'",
       answer |-> "What is Netflix?", id |-> <<"3", "-", "0">>],
      [value |-> 400, question |-> "This artist painted the Mona Lisa",
       answer |-> "Who is Leonardo da Vinci?", id |-> <<"3", "-", "1">>],
      [value |-> 600, question |-> "This band had hits with 'Hey Jude' and 'Let It Be'",
       answer |-> "Who are The Beatles?", id |-> <<"3", "-", "2">>],
      [value |-> 800, question |-> "This superhero is also known as Bruce Wayne",
       answer |-> "Who is Batman?", id |-> <<"3", "-", "3">>],
      [value |-> 1000, question |-> "This director created 'Jurassic Park' and 'E.T.'",
       answer |-> "Who is Steven Spielberg?", id |-> <<"3", "-", "4">>]
    >>],
    [name |-> "EWS", id |-> 4, questions |-> <<
      [value |-> 200, question |-> "In the 1990s, EWS focused on this type of risk management",
       answer |-> "What is Deposit Risk Management?", id |-> <<"4", "-", "0">>],
      [value |-> 400, question |-> "This service was launched in 2001-05 as an account opening service-based offering",
       answer |-> "What is Identity Chek?", id |-> <<"4", "-", "1">>],
      [value |-> 600, question |-> "PPS was spun out of this company as a fully bank-owned company in 2006-09",
       answer |-> "What is First Data?", id |-> <<"4", "-", "2">>],
      [value |-> 800, question |-> "In 2013-15, this company was acquired, expanding EWS's reach in mobile authentication",
       answer |-> "What is Payfone?", id |-> <<"4", "-", "3">>],
      [value |-> 1000, question |-> "This brand was launched in August 2024 to deliver a new merchant checkout experience",
       answer |-> "What is Paze?", id |-> <<"4", "-", "4">>]
    >>]
  >>

Sa_categories ==
  <<
    [name |-> "Science", questions |-> <<
      [value |-> 200, question |-> "This planet is known as the Red Planet",
       answer |-> "What is Mars?"],
      [value |-> 400, question |-> "H2O is the chemical formula for this substance",
       answer |-> "What is water?"],
      [value |-> 600, question |-> "This force keeps us grounded on Earth",
       answer |-> "What is gravity?"],
      [value |-> 800, question |-> "The human body has this many bones",
       answer |-> "What is 206?"],
      [value |-> 1000, question |-> "This is the speed of light in meters per second",
       answer |-> "What is 299,792,458?"]
    >>],
    [name |-> "History", questions |-> <<
      [value |-> 200, question |-> "This war ended in 1945",
       answer |-> "What is World War II?"],
      [value |-> 400, question |-> "The Declaration of Independence was signed in this year",
       answer |-> "What is 1776?"],
      [value |-> 600, question |-> "This ancient wonder is located in Egypt",
       answer |-> "What are the Pyramids (of Giza)?"],
      [value |-> 800, question |-> "This empire was ruled by Julius Caesar",
       answer |-> "What is the Roman Empire?"],
      [value |-> 1000, question |-> "The Berlin Wall fell in this year",
       answer |-> "What is 1989?"]
    >>],
    [name |-> "Geography", questions |-> <<
      [value |-> 200, question |-> "This is the largest ocean on Earth",
       answer |-> "What is the Pacific Ocean?"],
      [value |-> 400, question |-> "This country has the most population",
       answer |-> "What is India (or China)?"],
      [value |-> 600, question |-> "This is the capital of Australia",
       answer |-> "What is Canberra?"],
      [value |-> 800, question |-> "This river is the longest in the world",
       answer |-> "What is the Nile?"],
      [value |-> 1000, question |-> "This is the smallest country in the world",
       answer |-> "What is Vatican City?"]
    >>],
    [name |-> "Pop Culture", questions |-> <<
      [value |-> 200, question |-> "This streaming service created 'Stranger Things'",
       answer |-> "What is Netflix?"],
      [value |-> 400, question |-> "This artist painted the Mona Lisa",
       answer |-> "Who is Leonardo da Vinci?"],
      [value |-> 600, question |-> "This band had hits with 'Hey Jude' and 'Let It Be'",
       answer |-> "Who are The Beatles?"],
      [value |-> 800, question |-> "This superhero is also known as Bruce Wayne",
       answer |-> "Who is Batman?"],
      [value |-> 1000, question |-> "This director created 'Jurassic Park' and 'E.T.'",
       answer |-> "Who is Steven Spielberg?"]
    >>],
    [name |-> "EWS", questions |-> <<
      [value |-> 200, question |-> "In the 1990s, EWS focused on this type of risk management",
       answer |-> "What is Deposit Risk Management?"],
      [value |-> 400, question |-> "This service was launched in 2001-05 as an account opening service-based offering",
       answer |-> "What is Identity Chek?"],
      [value |-> 600, question |-> "PPS was spun out of this company as a fully bank-owned company in 2006-09",
       answer |-> "What is First Data?"],
      [value |-> 800, question |-> "In 2013-15, this company was acquired, expanding EWS's reach in mobile authentication",
       answer |-> "What is Payfone?"],
      [value |-> 1000, question |-> "This brand was launched in August 2024 to deliver a new merchant checkout experience",
       answer |-> "What is Paze?"]
    >>]
  >>

\* The text the generation service is asked to return is abstracted to
\* tokens: "{" and "}" are the braces, "x" is commentary without braces, and
\* a body token stands for the text `"categories": [...]` of a board with
\* the named shape; "cats5x5neg" is a board of the requested shape whose
\* first question carries a negative value.  The text of a body token has
\* braces of its own, those of its category and question objects.
BodyTokens == {"cats5x5", "cats4x5", "cats5x4", "cats5x5neg"}

\* The parts of the text of a body token that a match can cut out: from
\* its first "{" to its end, from its start to its last "}", and from its
\* first "{" to its last "}".
FromFirstBrace(tok) == tok \o ":{.."

ToLastBrace(tok) == tok \o ":..}"

FirstToLastBrace(tok) == tok \o ":{..}"

GeneratedQuestion(qi) ==
  [value |-> 200 * qi, question |-> "clue", answer |-> "What is it?"]

GeneratedCategory(ci, nq) ==
  [name |-> IF ci = 1 THEN "EWS" ELSE "Topic " \o ToString(ci),
   questions |-> [qi \in 1..nq |-> GeneratedQuestion(qi)]]

\* The categories array a body token stands for: 5 x 5, 4 categories of 5,
\* 5 categories the last of which has 4 questions, or 5 x 5 with the value
\* -200 on the first question.
BodyCategories(tok) ==
  CASE tok = "cats5x5" -> [ci \in 1..5 |-> GeneratedCategory(ci, 5)]
    [] tok = "cats4x5" -> [ci \in 1..4 |-> GeneratedCategory(ci, 5)]
    [] tok = "cats5x4" ->
         [ci \in 1..5 |-> GeneratedCategory(ci, IF ci = 5 THEN 4 ELSE 5)]
    [] tok = "cats5x5neg" ->
         [[ci \in 1..5 |-> GeneratedCategory(ci, 5)]
            EXCEPT ![1].questions[1].value = -200]

----------------------------------------------------------------------------
(* The component's fields as one record *)

Fields ==
  [gameState |-> gameState, numTeams |-> numTeams, teams |-> teams,
   currentTeam |-> currentTeam, selectedQuestion |-> selectedQuestion,
   showAnswer |-> showAnswer, answeredQuestions |-> answeredQuestions,
   categories |-> categories, isGenerating |-> isGenerating]

\* {...q, answered: true}
WithAnswered(q) ==
  [f \in DOMAIN q \cup {"answered"} |-> IF f = "answered" THEN TRUE ELSE q[f]]

\* categories[c].questions[q].value
QuestionValue(cats, c, q) == cats[c + 1].questions[q + 1].value

\* `${categoryIndex}-${questionIndex}`
QuestionKey(c, q) == NumToStr(c) \o <<"-">> \o NumToStr(q)

----------------------------------------------------------------------------
(* jeopardyGame.js: the Lightning web component *)

Lwc_clampTeams(value) ==
  MathMax(1, MathMin(6, OrElse(parseInt(value), 1))).n

Lwc_handleTeamChange(s, value) ==
  [s EXCEPT !.numTeams = Lwc_clampTeams(value)]

Lwc_newTeams(n) ==
  [i \in 1..n |-> [name |-> TeamName(i), score |-> 0, id |-> i - 1]]

Lwc_startGame(s) ==
  [s EXCEPT !.teams = Lwc_newTeams(s.numTeams),
            !.currentTeam = 0,
            !.answeredQuestions = {},
            !.categories = Lwc_initializeCategories,
            !.gameState = "playing"]

\* Lwc_handleQuestionClick that takes the two parts of the id in the
\* wrong order.
Lwc_handleQuestionClick_swapsIndices(s, questionId) ==
  IF questionId \notin s.answeredQuestions
  THEN LET parts == Split(questionId, "-")
       IN [s EXCEPT !.selectedQuestion =
                      [categoryIndex |-> Number(parts[2]).n,
                       questionIndex |-> Number(parts[1]).n,
                       key |-> questionId],
                    !.showAnswer = FALSE]
  ELSE s

Lwc_handleQuestionClick(s, questionId) ==
  IF questionId \notin s.answeredQuestions
  THEN LET parts == Split(questionId, "-")
       IN [s EXCEPT !.selectedQuestion =
                      [categoryIndex |-> Number(parts[1]).n,
                       questionIndex |-> Number(parts[2]).n,
                       key |-> questionId],
                    !.showAnswer = FALSE]
  ELSE s

\* Lwc_handleShowAnswer that already counts the question as answered.
Lwc_handleShowAnswer_marksAnswered(s) ==
  [s EXCEPT !.showAnswer = TRUE,
            !.answeredQuestions = SetAdd(@, s.selectedQuestion.key)]

Lwc_handleShowAnswer(s) == [s EXCEPT !.showAnswer = TRUE]

\* Lwc_handleAnswer that sets the answered flag of the question and leaves
\* the answered set as it was.
Lwc_handleAnswer_flagOnly(s, isCorrect) ==
  IF s.selectedQuestion = Null THEN s
  ELSE LET c == s.selectedQuestion.categoryIndex
           q == s.selectedQuestion.questionIndex
           questionValue == QuestionValue(s.categories, c, q)
           scored ==
             IF isCorrect
             THEN [s.teams EXCEPT ![s.currentTeam + 1].score = @ + questionValue]
             ELSE s.teams
       IN [s EXCEPT !.teams = scored,
                    !.categories =
                      [s.categories EXCEPT ![c + 1].questions[q + 1] = WithAnswered(@)],
                    !.selectedQuestion = Null,
                    !.showAnswer = FALSE,
                    !.currentTeam = (s.currentTeam + 1) % Len(s.teams)]

\* Lwc_handleAnswer that advances the turn without wrapping.
Lwc_handleAnswer_noWrap(s, isCorrect) ==
  IF s.selectedQuestion = Null THEN s
  ELSE LET c == s.selectedQuestion.categoryIndex
           q == s.selectedQuestion.questionIndex
           key == s.selectedQuestion.key
           questionValue == QuestionValue(s.categories, c, q)
           scored ==
             IF isCorrect
             THEN [s.teams EXCEPT ![s.currentTeam + 1].score = @ + questionValue]
             ELSE s.teams
       IN [s EXCEPT !.teams = scored,
                    !.categories =
                      [s.categories EXCEPT ![c + 1].questions[q + 1] = WithAnswered(@)],
                    !.answeredQuestions = SetAdd(s.answeredQuestions, key),
                    !.selectedQuestion = Null,
                    !.showAnswer = FALSE,
                    !.currentTeam = s.currentTeam + 1]

\* Lwc_handleAnswer with the score added whether or not the answer is correct.
Lwc_handleAnswer_scoresAlways(s, isCorrect) ==
  IF s.selectedQuestion = Null THEN s
  ELSE LET c == s.selectedQuestion.categoryIndex
           q == s.selectedQuestion.questionIndex
           key == s.selectedQuestion.key
           questionValue == QuestionValue(s.categories, c, q)
       IN [s EXCEPT !.teams = [s.teams EXCEPT ![s.currentTeam + 1].score = @ + questionValue],
                    !.categories =
                      [s.categories EXCEPT ![c + 1].questions[q + 1] = WithAnswered(@)],
                    !.answeredQuestions = SetAdd(s.answeredQuestions, key),
                    !.selectedQuestion = Null,
                    !.showAnswer = FALSE,
                    !.currentTeam = (s.currentTeam + 1) % Len(s.teams)]

\* Destructuring a null selectedQuestion throws before anything is assigned.
Lwc_handleAnswer(s, isCorrect) ==
  IF s.selectedQuestion = Null THEN s
  ELSE LET c == s.selectedQuestion.categoryIndex
           q == s.selectedQuestion.questionIndex
           key == s.selectedQuestion.key
           questionValue == QuestionValue(s.categories, c, q)
           scored ==
             IF isCorrect
             THEN [s.teams EXCEPT ![s.currentTeam + 1].score = @ + questionValue]
             ELSE s.teams
       IN [s EXCEPT !.teams = scored,
                    !.categories =
                      [s.categories EXCEPT ![c + 1].questions[q + 1] = WithAnswered(@)],
                    !.answeredQuestions = SetAdd(s.answeredQuestions, key),
                    !.selectedQuestion = Null,
                    !.showAnswer = FALSE,
                    !.currentTeam = (s.currentTeam + 1) % Len(s.teams)]

\* Lwc_handleKeyPress that passes the turn on when a question is cancelled.
Lwc_handleKeyPress_passesTurn(s, key) ==
  IF key = "Escape" /\ s.selectedQuestion # Null
  THEN [s EXCEPT !.selectedQuestion = Null, !.showAnswer = FALSE,
                 !.currentTeam = (s.currentTeam + 1) % Len(s.teams)]
  ELSE s

\* Lwc_handleKeyPress that clears the selection but not the reveal.
Lwc_handleKeyPress_keepsReveal(s, key) ==
  IF key = "Escape" /\ s.selectedQuestion # Null
  THEN [s EXCEPT !.selectedQuestion = Null]
  ELSE s

Lwc_handleKeyPress(s, key) ==
  IF key = "Escape" /\ s.selectedQuestion # Null
  THEN [s EXCEPT !.selectedQuestion = Null, !.showAnswer = FALSE]
  ELSE s

\* document.addEventListener('keydown', fn): the registered functions with
\* fn among them.
AddEventListener(registered, fn) == registered \cup {fn}

\* document.removeEventListener('keydown', fn): the registered functions
\* without fn; nothing changes when fn is not registered.
RemoveEventListener(registered, fn) == registered \ {fn}

\* this.handleKeyPress.bind(this): every call returns a new function,
\* identified here by the number next.
Bind(next) == next

\* connectedCallback registers a newly bound function.
Lwc_connectedCallback(registered, next) ==
  AddEventListener(registered, Bind(next))

\* disconnectedCallback asks to remove a newly bound function.
Lwc_disconnectedCallback(registered, next) ==
  RemoveEventListener(registered, Bind(next))

\* A keydown event of the document calls every registered function, each
\* of which runs handleKeyPress on the component.
RECURSIVE Lwc_dispatchKeyDown(_, _, _)
Lwc_dispatchKeyDown(s, key, n) ==
  IF n = 0 THEN s
  ELSE Lwc_dispatchKeyDown(Lwc_handleKeyPress(s, key), key, n - 1)

\* Lwc_resetGame that also puts the team count back to its default.
Lwc_resetGame_resetsTeamCount(s) ==
  [s EXCEPT !.gameState = "setup",
            !.numTeams = 2,
            !.teams = <<>>,
            !.currentTeam = 0,
            !.answeredQuestions = {},
            !.selectedQuestion = Null,
            !.showAnswer = FALSE,
            !.categories = <<>>]

\* Lwc_resetGame that leaves the question on screen selected.
Lwc_resetGame_keepsSelection(s) ==
  [s EXCEPT !.gameState = "setup",
            !.teams = <<>>,
            !.currentTeam = 0,
            !.answeredQuestions = {},
            !.showAnswer = FALSE,
            !.categories = <<>>]

Lwc_resetGame(s) ==
  [s EXCEPT !.gameState = "setup",
            !.teams = <<>>,
            !.currentTeam = 0,
            !.answeredQuestions = {},
            !.selectedQuestion = Null,
            !.showAnswer = FALSE,
            !.categories = <<>>]

Lwc_isSetup(s) == s.gameState = "setup"

Lwc_isPlaying(s) == s.gameState = "playing"

Lwc_currentQuestionData(s) ==
  IF s.selectedQuestion = Null THEN Null
  ELSE LET c == s.selectedQuestion.categoryIndex
           q == s.selectedQuestion.questionIndex
       IN [category |-> s.categories[c + 1].name,
           value |-> s.categories[c + 1].questions[q + 1].value,
           question |-> s.categories[c + 1].questions[q + 1].question,
           answer |-> s.categories[c + 1].questions[q + 1].answer]

\* The controls the component's template offers.  The template is not among
\* the sources: it is taken from the specified question lifecycle
\* (Unanswered, Selected, AnswerRevealed, Resolved, one question in flight)
\* through the getters the component defines for it, which is also what the
\* React views show.
Lwc_render(s) ==
  IF Lwc_isSetup(s) THEN {"teamInput", "startButton"}
  ELSE IF Lwc_isPlaying(s)
  THEN {"reset"} \cup
       (IF Lwc_currentQuestionData(s) = Null THEN {"board"}
        ELSE IF ~s.showAnswer THEN {"showAnswerButton"}
        ELSE {"correct", "wrong"})
  ELSE {}

----------------------------------------------------------------------------
(* jeopardy_game_standalone.tsx: the static React component *)

\* Sa_clampTeams without the upper limit.
Sa_clampTeams_noUpperLimit(value) ==
  MathMax(1, OrElse(parseInt(value), 1)).n

Sa_clampTeams(value) ==
  MathMax(1, MathMin(6, OrElse(parseInt(value), 1))).n

Sa_setNumTeams(s, value) == [s EXCEPT !.numTeams = Sa_clampTeams(value)]

Sa_newTeams(n) == [i \in 1..n |-> [name |-> TeamName(i), score |-> 0]]

\* Sa_startGame that shows the generating state of the generative component.
Sa_startGame_entersGenerating(s) ==
  [s EXCEPT !.teams = Sa_newTeams(s.numTeams),
            !.gameState = "generating",
            !.currentTeam = 0,
            !.answeredQuestions = {}]

Sa_startGame(s) ==
  [s EXCEPT !.teams = Sa_newTeams(s.numTeams),
            !.gameState = "playing",
            !.currentTeam = 0,
            !.answeredQuestions = {}]

\* Sa_handleQuestionClick without the test of the answered set.
Sa_handleQuestionClick_noAnsweredTest(s, categoryIndex, questionIndex) ==
  [s EXCEPT !.selectedQuestion =
              [categoryIndex |-> categoryIndex,
               questionIndex |-> questionIndex,
               key |-> QuestionKey(categoryIndex, questionIndex)],
            !.showAnswer = FALSE]

Sa_handleQuestionClick(s, categoryIndex, questionIndex) ==
  LET key == QuestionKey(categoryIndex, questionIndex)
  IN IF key \notin s.answeredQuestions
     THEN [s EXCEPT !.selectedQuestion =
                      [categoryIndex |-> categoryIndex,
                       questionIndex |-> questionIndex,
                       key |-> key],
                    !.showAnswer = FALSE]
     ELSE s

Sa_setShowAnswer(s) == [s EXCEPT !.showAnswer = TRUE]

\* Sa_handleAnswer that passes the turn only after a correct answer.
Sa_handleAnswer_keepsTurnOnWrong(s, isCorrect) ==
  IF s.selectedQuestion = Null THEN s
  ELSE LET c == s.selectedQuestion.categoryIndex
           q == s.selectedQuestion.questionIndex
           key == s.selectedQuestion.key
           questionValue == QuestionValue(s.categories, c, q)
           newTeams ==
             IF isCorrect
             THEN [s.teams EXCEPT ![s.currentTeam + 1].score = @ + questionValue]
             ELSE s.teams
       IN [s EXCEPT !.teams = newTeams,
                    !.answeredQuestions = SetAdd(s.answeredQuestions, key),
                    !.selectedQuestion = Null,
                    !.showAnswer = FALSE,
                    !.currentTeam =
                      IF isCorrect THEN (s.currentTeam + 1) % Len(s.teams)
                      ELSE s.currentTeam]

Sa_handleAnswer(s, isCorrect) ==
  IF s.selectedQuestion = Null THEN s
  ELSE LET c == s.selectedQuestion.categoryIndex
           q == s.selectedQuestion.questionIndex
           key == s.selectedQuestion.key
           questionValue == QuestionValue(s.categories, c, q)
           newTeams ==
             IF isCorrect
             THEN [s.teams EXCEPT ![s.currentTeam + 1].score = @ + questionValue]
             ELSE s.teams
       IN [s EXCEPT !.teams = newTeams,
                    !.answeredQuestions = SetAdd(s.answeredQuestions, key),
                    !.selectedQuestion = Null,
                    !.showAnswer = FALSE,
                    !.currentTeam = (s.currentTeam + 1) % Len(s.teams)]

\* Sa_handleKeyPress that clears the selection but not the reveal.
Sa_handleKeyPress_keepsReveal(s, key) ==
  IF key = "Escape" /\ s.selectedQuestion # Null
  THEN [s EXCEPT !.selectedQuestion = Null]
  ELSE s

Sa_handleKeyPress(s, key) ==
  IF key = "Escape" /\ s.selectedQuestion # Null
  THEN [s EXCEPT !.selectedQuestion = Null, !.showAnswer = FALSE]
  ELSE s

\* Sa_resetGame that leaves the question on screen selected.
Sa_resetGame_keepsSelection(s) ==
  [s EXCEPT !.gameState = "setup",
            !.teams = <<>>,
            !.currentTeam = 0,
            !.answeredQuestions = {},
            !.showAnswer = FALSE]

Sa_resetGame(s) ==
  [s EXCEPT !.gameState = "setup",
            !.teams = <<>>,
            !.currentTeam = 0,
            !.answeredQuestions = {},
            !.selectedQuestion = Null,
            !.showAnswer = FALSE]

\* The controls the returned view offers.
\* Sa_render with the mark buttons shown as soon as a question is
\* selected, beside the reveal button.
Sa_render_marksBeforeReveal(s) ==
  IF s.gameState = "setup" THEN {"teamInput", "startButton"}
  ELSE {"reset"} \cup
       (IF s.selectedQuestion = Null THEN {"board"}
        ELSE IF ~s.showAnswer THEN {"showAnswerButton", "correct", "wrong"}
        ELSE {"correct", "wrong"})

Sa_render(s) ==
  IF s.gameState = "setup" THEN {"teamInput", "startButton"}
  ELSE {"reset"} \cup
       (IF s.selectedQuestion = Null THEN {"board"}
        ELSE IF ~s.showAnswer THEN {"showAnswerButton"}
        ELSE {"correct", "wrong"})

----------------------------------------------------------------------------
(* jeopardy_ai_version.tsx: the generative React component *)

\* Ai_clampTeams without the upper limit.
Ai_clampTeams_noUpperLimit(value) ==
  MathMax(1, OrElse(parseInt(value), 1)).n

Ai_clampTeams(value) ==
  MathMax(1, MathMin(6, OrElse(parseInt(value), 1))).n

Ai_setNumTeams(s, value) == [s EXCEPT !.numTeams = Ai_clampTeams(value)]

Ai_newTeams(n) == [i \in 1..n |-> [name |-> TeamName(i), score |-> 0]]

\* Ai_generateQuestions_begin that leaves the session in setup while the
\* request is outstanding.
Ai_generateQuestions_begin_staysInSetup(s) ==
  [s EXCEPT !.isGenerating = TRUE]

\* generateQuestions up to its await of fetch.
Ai_generateQuestions_begin(s) ==
  [s EXCEPT !.isGenerating = TRUE, !.gameState = "generating"]

\* Ai_startGame that creates the roster only when there is none yet.
Ai_startGame_keepsRoster(s) ==
  Ai_generateQuestions_begin(
    [s EXCEPT !.teams = IF s.teams = <<>> THEN Ai_newTeams(s.numTeams) ELSE s.teams,
              !.currentTeam = 0,
              !.answeredQuestions = {}])

\* startGame up to the await of fetch inside generateQuestions.
Ai_startGame(s) ==
  Ai_generateQuestions_begin(
    [s EXCEPT !.teams = Ai_newTeams(s.numTeams),
              !.currentTeam = 0,
              !.answeredQuestions = {}])

\* data.content.find(block => block.type === "text")?.text || ""
Ai_firstText(content) ==
  LET idx == {i \in 1..Len(content) : content[i].type = "text"}
  IN IF idx = {} THEN <<>>
     ELSE content[CHOOSE i \in idx : \A j \in idx : i <= j].text

\* content.match(/\{[\s\S]*\}/): the greedy match runs from the first "{"
\* to the last "}" of the text, those inside the text of a body token
\* included; Null when no "}" follows a "{".  A match that starts or ends
\* inside a body token holds that part of the token.
Ai_jsonMatch(content) ==
  LET opens == {i \in 1..Len(content) : content[i] \in {"{"} \cup BodyTokens}
      closes == {i \in 1..Len(content) : content[i] \in {"}"} \cup BodyTokens}
  IN IF opens = {} THEN Null
     ELSE LET first == CHOOSE i \in opens : \A j \in opens : i <= j
              after == {i \in closes :
                          i > first \/ (i = first /\ content[i] \in BodyTokens)}
          IN IF after = {} THEN Null
             ELSE LET last == CHOOSE i \in after : \A j \in after : i >= j
                      cut(i) ==
                        IF content[i] \notin BodyTokens THEN content[i]
                        ELSE IF i = first /\ i = last
                        THEN FirstToLastBrace(content[i])
                        ELSE IF i = first THEN FromFirstBrace(content[i])
                        ELSE IF i = last THEN ToLastBrace(content[i])
                        ELSE content[i]
                  IN [text |-> [i \in 1..(last - first + 1) |-> cut(first + i - 1)]]

\* JSON.parse of a token text: an object with a categories array, the
\* object {} (its categories is undefined), or a SyntaxError.  A part of
\* a body token is no JSON text: it starts at the first of several objects
\* that commas separate, or ends before the array is closed.
Ai_jsonParse(text) ==
  IF text = <<"{", "}">> THEN [ok |-> TRUE, categories |-> Undefined]
  ELSE IF Len(text) = 3 /\ text[1] = "{" /\ text[3] = "}" /\ text[2] \in BodyTokens
  THEN [ok |-> TRUE, categories |-> BodyCategories(text[2])]
  ELSE [ok |-> FALSE, categories |-> Undefined]

\* Whether the try block of generateQuestions throws on the outcome r of
\* the fetch: the fetch rejects, response.json() rejects, data.content is
\* undefined, no match, or JSON.parse throws.
Ai_generationThrows(r) ==
  \/ r.net = "error"
  \/ r.body.kind # "message"
  \/ Ai_jsonMatch(Ai_firstText(r.body.content)) = Null
  \/ ~Ai_jsonParse(Ai_jsonMatch(Ai_firstText(r.body.content)).text).ok

\* generateQuestions from the outcome r of the fetch to its end.
Ai_generateQuestions_settle(s, r) ==
  IF Ai_generationThrows(r)
  THEN [s EXCEPT !.gameState = "setup", !.isGenerating = FALSE]
  ELSE [s EXCEPT !.categories =
                   Ai_jsonParse(Ai_jsonMatch(Ai_firstText(r.body.content)).text).categories,
                 !.gameState = "playing",
                 !.isGenerating = FALSE]

\* What the catch block shows with alert().
Ai_generateQuestions_alert(r) ==
  IF Ai_generationThrows(r)
  THEN "Failed to generate questions. Please try again."
  ELSE ""

\* Ai_handleQuestionClick without the test of the answered set.
Ai_handleQuestionClick_noAnsweredTest(s, categoryIndex, questionIndex) ==
  [s EXCEPT !.selectedQuestion =
              [categoryIndex |-> categoryIndex,
               questionIndex |-> questionIndex,
               key |-> QuestionKey(categoryIndex, questionIndex)],
            !.showAnswer = FALSE]

Ai_handleQuestionClick(s, categoryIndex, questionIndex) ==
  LET key == QuestionKey(categoryIndex, questionIndex)
  IN IF key \notin s.answeredQuestions
     THEN [s EXCEPT !.selectedQuestion =
                      [categoryIndex |-> categoryIndex,
                       questionIndex |-> questionIndex,
                       key |-> key],
                    !.showAnswer = FALSE]
     ELSE s

Ai_setShowAnswer(s) == [s EXCEPT !.showAnswer = TRUE]

\* Ai_handleAnswer that builds the answered set from the new key alone.
Ai_handleAnswer_dropsAnswered(s, isCorrect) ==
  IF s.selectedQuestion = Null THEN s
  ELSE LET c == s.selectedQuestion.categoryIndex
           q == s.selectedQuestion.questionIndex
           key == s.selectedQuestion.key
           questionValue == QuestionValue(s.categories, c, q)
           newTeams ==
             IF isCorrect
             THEN [s.teams EXCEPT ![s.currentTeam + 1].score = @ + questionValue]
             ELSE s.teams
       IN [s EXCEPT !.teams = newTeams,
                    !.answeredQuestions = {key},
                    !.selectedQuestion = Null,
                    !.showAnswer = FALSE,
                    !.currentTeam = (s.currentTeam + 1) % Len(s.teams)]

Ai_handleAnswer(s, isCorrect) ==
  IF s.selectedQuestion = Null THEN s
  ELSE LET c == s.selectedQuestion.categoryIndex
           q == s.selectedQuestion.questionIndex
           key == s.selectedQuestion.key
           questionValue == QuestionValue(s.categories, c, q)
           newTeams ==
             IF isCorrect
             THEN [s.teams EXCEPT ![s.currentTeam + 1].score = @ + questionValue]
             ELSE s.teams
       IN [s EXCEPT !.teams = newTeams,
                    !.answeredQuestions = SetAdd(s.answeredQuestions, key),
                    !.selectedQuestion = Null,
                    !.showAnswer = FALSE,
                    !.currentTeam = (s.currentTeam + 1) % Len(s.teams)]

Ai_handleKeyPress(s, key) ==
  IF key = "Escape" /\ s.selectedQuestion # Null
  THEN [s EXCEPT !.selectedQuestion = Null, !.showAnswer = FALSE]
  ELSE s

\* Ai_resetGame that leaves the answered set as it was.
Ai_resetGame_keepsAnswered(s) ==
  [s EXCEPT !.gameState = "setup",
            !.teams = <<>>,
            !.currentTeam = 0,
            !.selectedQuestion = Null,
            !.showAnswer = FALSE,
            !.categories = <<>>]

\* Ai_resetGame that leaves the turn where it was.
Ai_resetGame_keepsTurn(s) ==
  [s EXCEPT !.gameState = "setup",
            !.teams = <<>>,
            !.answeredQuestions = {},
            !.selectedQuestion = Null,
            !.showAnswer = FALSE,
            !.categories = <<>>]

Ai_resetGame(s) ==
  [s EXCEPT !.gameState = "setup",
            !.teams = <<>>,
            !.currentTeam = 0,
            !.answeredQuestions = {},
            !.selectedQuestion = Null,
            !.showAnswer = FALSE,
            !.categories = <<>>]

\* Ai_render with the board left on screen beside the selected question.
Ai_render_boardStays(s) ==
  IF s.gameState = "setup" THEN {"teamInput", "startButton"}
  ELSE IF s.gameState = "generating" THEN {}
  ELSE IF s.categories = Undefined THEN {}
  ELSE {"reset", "board"} \cup
       (IF s.selectedQuestion = Null THEN {}
        ELSE IF ~s.showAnswer THEN {"showAnswerButton"}
        ELSE {"correct", "wrong"})

\* Ai_render without the generating view: the board view is returned
\* whenever the session is not in setup.
Ai_render_noGeneratingView(s) ==
  IF s.gameState = "setup" THEN {"teamInput", "startButton"}
  ELSE IF s.categories = Undefined THEN {}
  ELSE {"reset"} \cup
       (IF s.selectedQuestion = Null THEN {"board"}
        ELSE IF ~s.showAnswer THEN {"showAnswerButton"}
        ELSE {"correct", "wrong"})

\* The controls the returned view offers.  With categories undefined the
\* board view throws while rendering and React unmounts the component.
Ai_render(s) ==
  IF s.gameState = "setup" THEN {"teamInput", "startButton"}
  ELSE IF s.gameState = "generating" THEN {}
  ELSE IF s.categories = Undefined THEN {}
  ELSE {"reset"} \cup
       (IF s.selectedQuestion = Null THEN {"board"}
        ELSE IF ~s.showAnswer THEN {"showAnswerButton"}
        ELSE {"correct", "wrong"})

\* Whether the component is still mounted: when the board view throws, React
\* unmounts the component and the cleanup of its effect removes the key
\* listener.
Ai_mounted(s) == ~(s.gameState = "playing" /\ s.categories = Undefined)

----------------------------------------------------------------------------
(* Inputs *)

\* What a user types into the team-count field.
RawInputs ==
  { <<>>, <<"0">>, <<"1">>, <<"3">>, <<"7">>, <<"1", "2">>,
    <<"-", "2">>, <<"a", "b">>, <<"2", ".", "7">>, <<"3", "a">>, <<" ", "4">>,
    <<"\t", "4">>, <<"", "4">>, <<"0", "x", "5">> }

Keys == {"Escape", "Enter"}

\* The texts the generation service answers with.
Payloads ==
  { <<>>,
    <<"x">>,
    <<"{", "x", "}">>,
    <<"{", "}">>,
    <<"{", "cats5x5", "}">>,
    <<"x", "{", "cats5x5", "}", "x">>,
    <<"{", "cats5x5", "}", "x", "{", "x", "}">>,
    <<"{", "cats4x5", "}">>,
    <<"{", "cats5x4", "}">>,
    <<"{", "cats5x5neg", "}">>,
    <<"cats5x5", "{", "}">>,
    <<"{", "cats5x5">>,
    <<"cats5x5">> }

\* The outcomes of the fetch: it rejects, or it resolves to a response with
\* a success status and a message body, or with an error status and a body
\* that is an error object or is not JSON.  generateQuestions never reads
\* the status; what it does depends on the body alone.
Responses ==
  {[net |-> "error"]}
  \cup {[net |-> "ok", status |-> 200,
         body |-> [kind |-> "message", content |-> <<[type |-> "text", text |-> p]>>]]
        : p \in Payloads}
  \cup {[net |-> "ok", status |-> 200, body |-> [kind |-> "message", content |-> <<>>]],
        [net |-> "ok", status |-> 200,
         body |-> [kind |-> "message",
                   content |-> <<[type |-> "tool_use", text |-> <<>>],
                                 [type |-> "text", text |-> <<"{", "cats5x5", "}">>]>>]],
        [net |-> "ok", status |-> 401, body |-> [kind |-> "error"]],
        [net |-> "ok", status |-> 500, body |-> [kind |-> "notjson"]]}

----------------------------------------------------------------------------
(* The state machine *)

\* An input event: its kind, its argument, and what was on screen when it
\* arrived.
Event(op, arg) ==
  [op |-> op, arg |-> arg,
   from |-> [gameState |-> gameState, selectedQuestion |-> selectedQuestion,
             showAnswer |-> showAnswer]]

Init ==
  /\ variant \in Variants
  /\ gameState = "setup"
  /\ numTeams = 2
  /\ teams = <<>>
  /\ currentTeam = 0
  /\ selectedQuestion = Null
  /\ showAnswer = FALSE
  /\ answeredQuestions = {}
  /\ categories = IF variant = "standalone" THEN Sa_categories ELSE <<>>
  /\ isGenerating = FALSE
  /\ pending = 0
  /\ alertMsg = ""
  /\ lastOp = Event("mount", <<>>)
  /\ connected = TRUE
  /\ listeners = AddEventListener({}, 0)
  /\ nextBound = 1
  /\ lookup = Unmounted
  /\ requests = {}
  /\ issued = 0
  /\ shownFor = 0
  /\ jobs = <<>>

\* The handler's result becomes the component's fields.
Install(s) ==
  /\ gameState' = s.gameState
  /\ numTeams' = s.numTeams
  /\ teams' = s.teams
  /\ currentTeam' = s.currentTeam
  /\ selectedQuestion' = s.selectedQuestion
  /\ showAnswer' = s.showAnswer
  /\ answeredQuestions' = s.answeredQuestions
  /\ categories' = s.categories
  /\ isGenerating' = s.isGenerating

\* The controls on screen.
Render ==
  CASE variant = "lwc" -> Lwc_render(Fields)
    [] variant = "standalone" -> Sa_render(Fields)
    [] variant = "ai" -> Ai_render(Fields)

\* The board positions a player clicks.
ClickTargets ==
  {cq \in (0..MaxCat) \X (0..MaxQ) :
     /\ cq[1] < Len(categories)
     /\ cq[2] < Len(categories[cq[1] + 1].questions)}

TeamChange(value) ==
  /\ "teamInput" \in Render
  /\ Install(CASE variant = "lwc" -> Lwc_handleTeamChange(Fields, value)
               [] variant = "standalone" -> Sa_setNumTeams(Fields, value)
               [] variant = "ai" -> Ai_setNumTeams(Fields, value))
  /\ alertMsg' = ""
  /\ lastOp' = Event("teamChange", value)
  /\ UNCHANGED <<variant, pending>>
  /\ UNCHANGED lifecycle
  /\ UNCHANGED lookupVars

StartGame ==
  /\ "startButton" \in Render
  /\ Install(CASE variant = "lwc" -> Lwc_startGame(Fields)
               [] variant = "standalone" -> Sa_startGame(Fields)
               [] variant = "ai" -> Ai_startGame(Fields))
  /\ pending' = IF variant = "ai" THEN pending + 1 ELSE pending
  /\ alertMsg' = ""
  /\ lastOp' = Event("start", <<>>)
  /\ UNCHANGED variant
  /\ UNCHANGED lifecycle
  /\ UNCHANGED lookupVars

QuestionClick(c, q) ==
  /\ "board" \in Render
  /\ <<c, q>> \in ClickTargets
  /\ \/ QuestionKey(c, q) \in answeredQuestions
     \/ Cardinality(answeredQuestions) < MaxResolved
  /\ Install(CASE variant = "lwc" ->
                    Lwc_handleQuestionClick(Fields, categories[c + 1].questions[q + 1].id)
               [] variant = "standalone" -> Sa_handleQuestionClick(Fields, c, q)
               [] variant = "ai" -> Ai_handleQuestionClick(Fields, c, q))
  /\ alertMsg' = ""
  /\ lastOp' = Event("click", QuestionKey(c, q))
  /\ UNCHANGED <<variant, pending>>
  /\ UNCHANGED lifecycle
  /\ UNCHANGED lookupVars

ShowAnswer ==
  /\ "showAnswerButton" \in Render
  /\ Install(CASE variant = "lwc" -> Lwc_handleShowAnswer(Fields)
               [] variant = "standalone" -> Sa_setShowAnswer(Fields)
               [] variant = "ai" -> Ai_setShowAnswer(Fields))
  /\ alertMsg' = ""
  /\ lastOp' = Event("showAnswer", <<>>)
  /\ UNCHANGED <<variant, pending>>
  /\ UNCHANGED lifecycle
  /\ UNCHANGED lookupVars

Answer(isCorrect) ==
  /\ (IF isCorrect THEN "correct" ELSE "wrong") \in Render
  /\ Install(CASE variant = "lwc" -> Lwc_handleAnswer(Fields, isCorrect)
               [] variant = "standalone" -> Sa_handleAnswer(Fields, isCorrect)
               [] variant = "ai" -> Ai_handleAnswer(Fields, isCorrect))
  /\ alertMsg' = ""
  /\ lastOp' = Event("answer", isCorrect)
  /\ UNCHANGED <<variant, pending>>
  /\ UNCHANGED lifecycle
  /\ UNCHANGED lookupVars

KeyDown(key) ==
  /\ variant = "ai" => Ai_mounted(Fields)
  /\ Install(CASE variant = "lwc" ->
                    Lwc_dispatchKeyDown(Fields, key, Cardinality(listeners))
               [] variant = "standalone" -> Sa_handleKeyPress(Fields, key)
               [] variant = "ai" -> Ai_handleKeyPress(Fields, key))
  /\ alertMsg' = ""
  /\ lastOp' = Event("key", key)
  /\ UNCHANGED <<variant, pending>>
  /\ UNCHANGED lifecycle
  /\ UNCHANGED lookupVars

ResetGame ==
  /\ "reset" \in Render
  /\ Install(CASE variant = "lwc" -> Lwc_resetGame(Fields)
               [] variant = "standalone" -> Sa_resetGame(Fields)
               [] variant = "ai" -> Ai_resetGame(Fields))
  /\ alertMsg' = ""
  /\ lastOp' = Event("reset", <<>>)
  /\ UNCHANGED <<variant, pending>>
  /\ UNCHANGED lifecycle
  /\ UNCHANGED lookupVars

\* The outstanding fetch of generateQuestions settles with outcome r.
Respond(r) ==
  /\ variant = "ai"
  /\ pending > 0
  /\ Install(Ai_generateQuestions_settle(Fields, r))
  /\ pending' = pending - 1
  /\ alertMsg' = Ai_generateQuestions_alert(r)
  /\ lastOp' = Event("response", r)
  /\ connected' = (connected /\ Ai_mounted(Ai_generateQuestions_settle(Fields, r)))
  /\ listeners' = (IF Ai_mounted(Ai_generateQuestions_settle(Fields, r))
                   THEN listeners ELSE {})
  /\ UNCHANGED nextBound
  /\ UNCHANGED variant
  /\ UNCHANGED lookupVars

Next ==
  \/ \E value \in RawInputs : TeamChange(value)
  \/ StartGame
  \/ \E c \in 0..MaxCat, q \in 0..MaxQ : QuestionClick(c, q)
  \/ ShowAnswer
  \/ \E isCorrect \in BOOLEAN : Answer(isCorrect)
  \/ \E key \in Keys : KeyDown(key)
  \/ ResetGame
  \/ \E r \in Responses : Respond(r)

Spec == Init /\ [][Next]_vars


----------------------------------------------------------------------------
(* The Lightning component moved in and out of the document *)

\* The host inserts the component into the document: connectedCallback.
Connect ==
  /\ variant = "lwc"
  /\ ~connected
  /\ nextBound < MaxBinds
  /\ connected' = TRUE
  /\ listeners' = Lwc_connectedCallback(listeners, nextBound)
  /\ nextBound' = nextBound + 1
  /\ alertMsg' = ""
  /\ lastOp' = Event("connect", <<>>)
  /\ UNCHANGED <<variant, game, lookupVars>>

\* The host removes the component from the document: disconnectedCallback.
Disconnect ==
  /\ variant = "lwc"
  /\ connected
  /\ nextBound < MaxBinds
  /\ connected' = FALSE
  /\ listeners' = Lwc_disconnectedCallback(listeners, nextBound)
  /\ nextBound' = nextBound + 1
  /\ alertMsg' = ""
  /\ lastOp' = Event("disconnect", <<>>)
  /\ UNCHANGED <<variant, game, lookupVars>>

LifecycleInit == Init /\ variant = "lwc"

\* The controls of the template take input only while the component is in
\* the document; a keydown event of the document reaches the registered
\* functions at any time.
LifecycleNext ==
  \/ connected /\ \E value \in RawInputs : TeamChange(value)
  \/ connected /\ StartGame
  \/ connected /\ \E c \in 0..MaxCat, q \in 0..MaxQ : QuestionClick(c, q)
  \/ connected /\ ShowAnswer
  \/ connected /\ \E isCorrect \in BOOLEAN : Answer(isCorrect)
  \/ \E key \in Keys : KeyDown(key)
  \/ connected /\ ResetGame
  \/ Connect
  \/ Disconnect

LifecycleSpec == LifecycleInit /\ [][LifecycleNext]_vars

----------------------------------------------------------------------------
(* accountFetcher.js and orderDetailsViewer.js: the record-lookup components *)

Lookups == {"accountFetcher", "orderDetailsViewer"}

RECURSIVE TrimEnd(_)
TrimEnd(str) ==
  IF str # <<>> /\ str[Len(str)] \in WhiteSpace THEN TrimEnd(SubSeq(str, 1, Len(str) - 1))
  ELSE str

\* String.prototype.trim
Trim(str) == TrimEnd(TrimStart(str))

\* a || b for strings: b when a is empty (or missing, read as "").
StrOrElse(a, b) == IF a = "" THEN b ELSE a

Af_fields ==
  [accountId |-> <<>>, apiVersion |-> <<"v", "6", "5", ".", "0">>,
   result |-> Null, error |-> "", isLoading |-> FALSE]

Af_handleIdChange(s, value) == [s EXCEPT !.accountId = Trim(value)]

Af_handleVersionChange(s, value) == [s EXCEPT !.apiVersion = Trim(value)]

\* Whether handleFetch goes on to call fetchAccount.
Af_handleFetch_calls(s) == s.accountId # <<>>

\* handleFetch up to its await of fetchAccount, or to its early return.
Af_handleFetch_begin(s) ==
  IF Af_handleFetch_calls(s)
  THEN [s EXCEPT !.error = "", !.result = Null, !.isLoading = TRUE]
  ELSE [s EXCEPT !.error = "Please enter an Account Id.", !.result = Null]

\* The arguments of the fetchAccount call.
Af_request(s) == [accountId |-> s.accountId, apiVersion |-> s.apiVersion]

\* handleFetch from the outcome of fetchAccount to its end.
Af_handleFetch_settle(s, outcome) ==
  IF outcome.kind = "resolved"
  THEN LET res == outcome.res
       IN [s EXCEPT !.result = res,
                    !.error =
                      IF res # Null /\ res.statusCode >= 400
                      THEN StrOrElse(res.errorMessage,
                                     "API returned a non-success status.")
                      ELSE @,
                    !.isLoading = FALSE]
  ELSE [s EXCEPT !.error =
                   StrOrElse(outcome.e.bodyMessage,
                             StrOrElse(outcome.e.message,
                                       "Unexpected error invoking Apex.")),
                 !.isLoading = FALSE]

Od_fields ==
  [orderId |-> <<>>, orderData |-> Null, error |-> Null, isLoading |-> FALSE]

Od_handleOrderIdChange(s, value) == [s EXCEPT !.orderId = value, !.error = Null]

\* Whether handleSearch goes on to call getOrderDetails.
Od_handleSearch_calls(s) == s.orderId # <<>>

\* handleSearch up to the call of getOrderDetails, or to its early return.
Od_handleSearch_begin(s) ==
  IF Od_handleSearch_calls(s)
  THEN [s EXCEPT !.isLoading = TRUE, !.error = Null, !.orderData = Null]
  ELSE s

\* The toast handleSearch shows before it returns early.
Od_handleSearch_beginToast(s) ==
  IF Od_handleSearch_calls(s) THEN "" ELSE "Please enter an Order ID"

\* The arguments of the getOrderDetails call.
Od_request(s) == [orderId |-> s.orderId]

\* getOrderDetails(...).then(...).catch(...).finally(...): one outcome is
\* handled by three promise jobs, the callbacks of then, catch and finally,
\* and the jobs of other calls run between them.

\* The then callback of handleSearch; a rejection passes it by, and on a
\* null result it throws before it writes a field.
Od_handleSearch_then(s, outcome) ==
  IF outcome.kind = "resolved" /\ outcome.res # Null
  THEN IF outcome.res.success
       THEN [s EXCEPT !.orderData = outcome.res.order]
       ELSE [s EXCEPT !.error = StrOrElse(outcome.res.message, "Order not found")]
  ELSE s

\* The toast the then callback shows.
Od_handleSearch_thenToast(outcome) ==
  IF outcome.kind = "resolved" /\ outcome.res # Null /\ ~outcome.res.success
  THEN StrOrElse(outcome.res.message, "Order not found")
  ELSE ""

\* How the promise that then() returned settles: rejected with the
\* rejection of the call or with the TypeError of result.message on a null
\* result, fulfilled otherwise.
Od_handleSearch_thenSettles(outcome) ==
  IF outcome.kind = "rejected" THEN outcome
  ELSE IF outcome.res = Null
  THEN [kind |-> "rejected",
        e |-> [bodyMessage |-> "",
               message |-> "Cannot read properties of null (reading 'message')"]]
  ELSE [kind |-> "fulfilled"]

\* The error text of the catch callback.
Od_handleSearch_catchError(e) ==
  StrOrElse(e.bodyMessage, StrOrElse(e.message, "An error occurred"))

\* The catch callback of handleSearch; a fulfilment passes it by.
Od_handleSearch_catch(s, settled) ==
  IF settled.kind = "rejected"
  THEN [s EXCEPT !.error = Od_handleSearch_catchError(settled.e)]
  ELSE s

\* The toast the catch callback shows.
Od_handleSearch_catchToast(settled) ==
  IF settled.kind = "rejected" THEN Od_handleSearch_catchError(settled.e) ELSE ""

\* The finally callback of handleSearch.
Od_handleSearch_finally(s) == [s EXCEPT !.isLoading = FALSE]

Od_handleClear(s) ==
  [s EXCEPT !.orderId = <<>>, !.orderData = Null, !.error = Null]

\* What a user types into the id field and the version field.
IdInputs == { <<>>, <<"A">>, <<" ", "B", " ">>, <<"\t", "A", "\n">> }

VersionInputs == { <<"v", "6", "4", ".", "0">> }

\* The outcomes of the Apex call made with the arguments args: the promise
\* resolves to a response or to null, or rejects with an error.
Af_outcomes(args) ==
  { [kind |-> "resolved",
     res |-> [statusCode |-> 200, body |-> args.accountId, errorMessage |-> ""]],
    [kind |-> "resolved",
     res |-> [statusCode |-> 404, body |-> <<>>, errorMessage |-> "Not found"]],
    [kind |-> "resolved",
     res |-> [statusCode |-> 500, body |-> <<>>, errorMessage |-> ""]],
    [kind |-> "resolved", res |-> Null],
    [kind |-> "rejected", e |-> [bodyMessage |-> "Apex failed", message |-> ""]],
    [kind |-> "rejected", e |-> [bodyMessage |-> "", message |-> ""]] }

Od_outcomes(args) ==
  { [kind |-> "resolved",
     res |-> [success |-> TRUE, order |-> [order_id |-> args.orderId], message |-> ""]],
    [kind |-> "resolved",
     res |-> [success |-> FALSE, order |-> Null, message |-> "No such order"]],
    [kind |-> "resolved",
     res |-> [success |-> FALSE, order |-> Null, message |-> ""]],
    [kind |-> "resolved", res |-> Null],
    [kind |-> "rejected", e |-> [bodyMessage |-> "", message |-> "Network error"]] }

LookupInit ==
  /\ variant \in Lookups
  /\ gameState = "setup"
  /\ numTeams = 2
  /\ teams = <<>>
  /\ currentTeam = 0
  /\ selectedQuestion = Null
  /\ showAnswer = FALSE
  /\ answeredQuestions = {}
  /\ categories = <<>>
  /\ isGenerating = FALSE
  /\ pending = 0
  /\ alertMsg = ""
  /\ lastOp = Event("mount", <<>>)
  /\ connected = TRUE
  /\ listeners = {}
  /\ nextBound = 0
  /\ lookup = (IF variant = "accountFetcher" THEN Af_fields ELSE Od_fields)
  /\ requests = {}
  /\ issued = 0
  /\ shownFor = 0
  /\ jobs = <<>>

\* An input event is a task: it runs when no promise job is waiting.
LookupIdChange(value) ==
  /\ jobs = <<>>
  /\ lookup' = (IF variant = "accountFetcher" THEN Af_handleIdChange(lookup, value)
                ELSE Od_handleOrderIdChange(lookup, value))
  /\ alertMsg' = ""
  /\ lastOp' = Event("idChange", value)
  /\ UNCHANGED <<variant, game, lifecycle, requests, issued, shownFor, jobs>>

LookupVersionChange(value) ==
  /\ variant = "accountFetcher"
  /\ jobs = <<>>
  /\ lookup' = Af_handleVersionChange(lookup, value)
  /\ alertMsg' = ""
  /\ lastOp' = Event("versionChange", value)
  /\ UNCHANGED <<variant, game, lifecycle, requests, issued, shownFor, jobs>>

\* The Fetch or Search button: the handler runs to its await or its return,
\* and the call it made, if any, is outstanding.
LookupFetch ==
  LET calls == IF variant = "accountFetcher" THEN Af_handleFetch_calls(lookup)
               ELSE Od_handleSearch_calls(lookup)
      args == IF variant = "accountFetcher" THEN Af_request(lookup)
              ELSE Od_request(lookup)
  IN /\ jobs = <<>>
     /\ calls => issued < MaxRequests
     /\ lookup' = (IF variant = "accountFetcher" THEN Af_handleFetch_begin(lookup)
                   ELSE Od_handleSearch_begin(lookup))
     /\ alertMsg' = (IF variant = "accountFetcher" THEN ""
                     ELSE Od_handleSearch_beginToast(lookup))
     /\ requests' = (IF calls THEN requests \cup {[n |-> issued + 1, args |-> args]}
                     ELSE requests)
     /\ issued' = (IF calls THEN issued + 1 ELSE issued)
     /\ lastOp' = Event("fetch", IF calls THEN <<"call">> ELSE <<>>)
     /\ UNCHANGED <<variant, game, lifecycle, shownFor, jobs>>

\* The response of the outstanding call number n arrives with one of its
\* outcomes: the promise settles and its first job is queued, the rest of
\* handleFetch after the await or the then callback of handleSearch.
\* Responses that arrive together settle their promises before any job runs.
LookupSettle(n) ==
  \E req \in requests :
    \E outcome \in (IF variant = "accountFetcher" THEN Af_outcomes(req.args)
                    ELSE Od_outcomes(req.args)) :
      /\ req.n = n
      /\ \A i \in 1..Len(jobs) :
           jobs[i].n # n /\ jobs[i].stage \in {"resume", "then"}
      /\ jobs' = Append(jobs, [n |-> n,
                               stage |-> IF variant = "accountFetcher"
                                         THEN "resume" ELSE "then",
                               outcome |-> outcome])
      /\ alertMsg' = ""
      /\ lastOp' = Event("settle", <<>>)
      /\ UNCHANGED <<variant, game, lifecycle, lookup, requests, issued, shownFor>>

\* The first waiting promise job runs; the job that follows it in its chain
\* is queued behind the jobs already waiting, and the call is done with
\* when its last job has run.
LookupJob ==
  /\ jobs # <<>>
  /\ LET job == Head(jobs)
         done == {req \in requests : req.n = job.n}
     IN /\ CASE job.stage = "resume" ->
                  /\ lookup' = Af_handleFetch_settle(lookup, job.outcome)
                  /\ alertMsg' = ""
                  /\ shownFor' = job.n
                  /\ requests' = requests \ done
                  /\ jobs' = Tail(jobs)
             [] job.stage = "then" ->
                  /\ lookup' = Od_handleSearch_then(lookup, job.outcome)
                  /\ alertMsg' = Od_handleSearch_thenToast(job.outcome)
                  /\ shownFor' = (IF Od_handleSearch_thenSettles(job.outcome).kind
                                       = "fulfilled"
                                  THEN job.n ELSE shownFor)
                  /\ requests' = requests
                  /\ jobs' = Append(Tail(jobs),
                                    [n |-> job.n, stage |-> "catch",
                                     outcome |-> Od_handleSearch_thenSettles(job.outcome)])
             [] job.stage = "catch" ->
                  /\ lookup' = Od_handleSearch_catch(lookup, job.outcome)
                  /\ alertMsg' = Od_handleSearch_catchToast(job.outcome)
                  /\ shownFor' = (IF job.outcome.kind = "rejected"
                                  THEN job.n ELSE shownFor)
                  /\ requests' = requests
                  /\ jobs' = Append(Tail(jobs),
                                    [n |-> job.n, stage |-> "finally",
                                     outcome |-> [kind |-> "fulfilled"]])
             [] job.stage = "finally" ->
                  /\ lookup' = Od_handleSearch_finally(lookup)
                  /\ alertMsg' = ""
                  /\ shownFor' = shownFor
                  /\ requests' = requests \ done
                  /\ jobs' = Tail(jobs)
        /\ lastOp' = Event("job", <<job.stage>>)
  /\ UNCHANGED <<variant, game, lifecycle, issued>>

LookupClear ==
  /\ variant = "orderDetailsViewer"
  /\ jobs = <<>>
  /\ lookup' = Od_handleClear(lookup)
  /\ alertMsg' = ""
  /\ lastOp' = Event("clear", <<>>)
  /\ UNCHANGED <<variant, game, lifecycle, requests, issued, shownFor, jobs>>

LookupNext ==
  \/ \E value \in IdInputs : LookupIdChange(value)
  \/ \E value \in VersionInputs : LookupVersionChange(value)
  \/ LookupFetch
  \/ \E n \in 1..MaxRequests : LookupSettle(n)
  \/ LookupJob
  \/ LookupClear

LookupSpec == LookupInit /\ [][LookupNext]_vars

----------------------------------------------------------------------------
(* Properties *)

\* The value of the question on screen.
SelectedValue ==
  QuestionValue(categories, selectedQuestion.categoryIndex,
                selectedQuestion.questionIndex)

\* C1: a resolution marked correct adds exactly the value of the selected
\* question to the score of the team whose turn it is at that moment, a
\* resolution marked incorrect changes no score, and in both cases every
\* other team keeps its score.
ResolutionScoresCurrentTeam ==
  [][lastOp'.op = "answer" =>
       /\ selectedQuestion # Null
       /\ Len(teams') = Len(teams)
       /\ \A i \in 1..Len(teams) :
            teams'[i].score =
              teams[i].score +
                (IF lastOp'.arg /\ i = currentTeam + 1 THEN SelectedValue ELSE 0)
    ]_vars

\* C1 witness: the first team missed a question and the second team then
\* answered the 400 question correctly.
ResolutionScoresCurrentTeam_Witness ==
  /\ lastOp.op = "answer"
  /\ lastOp.arg
  /\ Len(teams) = 3
  /\ teams[1].score = 0
  /\ teams[2].score = 400
  /\ teams[3].score = 0

\* C2: every resolution, correct or not, moves the turn to the next team,
\* wrapping from the last team to team 0, and nothing but a resolution, a
\* start or a reset changes currentTeam.
TurnAdvancesOnResolutionOnly ==
  [][/\ lastOp'.op = "answer" =>
          currentTeam' = (currentTeam + 1) % Len(teams)
     /\ lastOp'.op \notin {"answer", "start", "reset"} =>
          currentTeam' = currentTeam
    ]_vars

\* C2 witness: with two teams the second resolution, an incorrect one,
\* wrapped the turn back to team 0.
TurnAdvancesOnResolutionOnly_Witness ==
  /\ lastOp.op = "answer"
  /\ ~lastOp.arg
  /\ Len(teams) = 2
  /\ Cardinality(answeredQuestions) = 2
  /\ currentTeam = 0

\* The text of the generation response r ("" when it carries none).
ResponseText(r) ==
  IF r.net = "ok" /\ r.body.kind = "message" THEN Ai_firstText(r.body.content)
  ELSE <<>>

\* The response r embeds a board that is not 5 categories of 5 questions.
WrongShapeResponse(r) ==
  \E i \in 1..Len(ResponseText(r)) :
    /\ ResponseText(r)[i] \in BodyTokens
    /\ LET cats == BodyCategories(ResponseText(r)[i])
       IN Len(cats) # 5 \/ \E c \in 1..Len(cats) : Len(cats[c].questions) # 5

\* C3: a generation response whose embedded JSON has other than 5
\* categories, or a category with other than 5 questions, is rejected: the
\* session is in Setup, an error is shown and no board is installed.
WrongShapeRejected ==
  (lastOp.op = "response" /\ WrongShapeResponse(lastOp.arg)) =>
    /\ gameState = "setup"
    /\ alertMsg # ""
    /\ categories = <<>>

\* The generation failed in one of the ways the failure taxonomy lists: the
\* fetch rejected, the status is not 2xx, the body is no message, the text
\* has no "{" followed by a "}", or what the first "{" opens is not an object
\* with a categories array.
FailedGeneration(r) ==
  \/ r.net = "error"
  \/ r.status \notin 200..299
  \/ r.body.kind # "message"
  \/ LET text == ResponseText(r)
         opens == {i \in 1..Len(text) : text[i] = "{"}
     IN \/ opens = {}
        \/ LET first == CHOOSE i \in opens : \A j \in opens : i <= j
           IN ~(/\ first + 2 <= Len(text)
                /\ text[first + 1] \in BodyTokens
                /\ text[first + 2] = "}")

\* C4: every kind of generation failure ends the same way: the session is
\* in Setup, an error is shown, the board is empty, and Playing is not
\* reached.
EveryFailureReturnsToSetup ==
  (lastOp.op = "response" /\ FailedGeneration(lastOp.arg)) =>
    /\ gameState = "setup"
    /\ alertMsg # ""
    /\ categories = <<>>

\* C5: after a failed generation the session in Setup keeps nothing of the
\* failed start: teams, board, selection and answered set are as in a fresh
\* Setup session.
FailedStartLeavesNoState ==
  (lastOp.op = "response" /\ gameState = "setup") =>
    /\ teams = <<>>
    /\ categories = <<>>
    /\ selectedQuestion = Null
    /\ showAnswer = FALSE
    /\ answeredQuestions = {}
    /\ currentTeam = 0

\* C6: selecting a question that is already answered changes nothing.
SelectingAnsweredIsNoOp ==
  [][(lastOp'.op = "click" /\ lastOp'.arg \in answeredQuestions) =>
       UNCHANGED <<selectedQuestion, showAnswer, answeredQuestions, teams,
                   currentTeam, categories, gameState>>
    ]_vars

\* C6 witness: a click arrived on a question that is in the answered set.
SelectingAnsweredIsNoOp_Witness ==
  /\ lastOp.op = "click"
  /\ lastOp.arg \in answeredQuestions
  /\ Cardinality(answeredQuestions) = 1

\* C7: Escape while a question is on screen, revealed or not, clears the
\* selection and the reveal and leaves the answered set, the scores and the
\* turn alone, so that the question is on the board again, unanswered;
\* Escape with no question on screen changes nothing.
CancelClearsSelectionOnly ==
  [][(lastOp'.op = "key" /\ lastOp'.arg = "Escape") =>
       IF selectedQuestion # Null
       THEN /\ selectedQuestion' = Null
            /\ showAnswer' = FALSE
            /\ UNCHANGED <<answeredQuestions, teams, currentTeam, gameState,
                           categories, numTeams>>
            /\ selectedQuestion.key \notin answeredQuestions'
            /\ "board" \in Render'
       ELSE UNCHANGED <<selectedQuestion, showAnswer, answeredQuestions, teams,
                        currentTeam, gameState, categories, numTeams>>
    ]_vars

\* C7 witness: Escape arrived while the answer of the selected question was
\* revealed, after an earlier resolution had scored.
CancelClearsSelectionOnly_Witness ==
  /\ lastOp.op = "key"
  /\ lastOp.arg = "Escape"
  /\ lastOp.from.selectedQuestion # Null
  /\ lastOp.from.showAnswer
  /\ selectedQuestion = Null
  /\ Cardinality(answeredQuestions) = 1
  /\ currentTeam = 1

\* clamp(n, lo, hi)
Clamp(n, lo, hi) == IF n < lo THEN lo ELSE IF n > hi THEN hi ELSE n

\* The typed text is a numeral: white space around an optional sign and
\* decimal digits with an optional fraction, or a 0x numeral, or nothing
\* at all, which reads as 0.
IsNumeral(str) ==
  LET t == Trim(str)
      u == IF t # <<>> /\ Head(t) \in {"-", "+"} THEN Tail(t) ELSE t
      whole == DigitPrefix(u)
      rest == SubSeq(u, Len(whole) + 1, Len(u))
  IN \/ t = <<>>
     \/ /\ whole # <<>>
        /\ \/ rest = <<>>
           \/ Head(rest) = "." /\ \A i \in 2..Len(rest) : rest[i] \in Digits
     \/ /\ Len(t) >= 3
        /\ t[1] = "0"
        /\ t[2] \in {"x", "X"}
        /\ \A i \in 3..Len(t) : t[i] \in RadixDigits(16)

\* The whole part of the number a numeral denotes.
NumeralValue(str) ==
  LET t == Trim(str)
      neg == t # <<>> /\ Head(t) = "-"
      u == IF t # <<>> /\ Head(t) \in {"-", "+"} THEN Tail(t) ELSE t
  IN IF t = <<>> THEN 0
     ELSE IF Len(t) >= 3 /\ t[2] \in {"x", "X"}
     THEN RadixValue(SubSeq(t, 3, Len(t)), 16, 0)
     ELSE IF neg THEN 0 - DigitsValue(DigitPrefix(u), 0)
     ELSE DigitsValue(DigitPrefix(u), 0)

\* The team count the contract asks for: the clamped number for a numeral,
\* 1 for any other text.
RequestedTeams(str) ==
  IF IsNumeral(str) THEN Clamp(NumeralValue(str), 1, 6) ELSE 1

\* C8: every team-count input followed by start gives clamp(n, 1, 6)
\* teams, 1 for text that is no number and for 0, named Team 1 .. Team k in
\* order, all names distinct, every score 0.
RosterIsClampedCount ==
  [][(lastOp.op = "teamChange" /\ lastOp'.op = "start") =>
       /\ Len(teams') = RequestedTeams(lastOp.arg)
       /\ \A i \in 1..Len(teams') :
            /\ teams'[i].name = "Team " \o ToString(i)
            /\ teams'[i].score = 0
       /\ \A i, j \in 1..Len(teams') : i # j => teams'[i].name # teams'[j].name
    ]_vars

\* What resetGame makes of the fields s.
ResetResult(s) ==
  CASE variant = "lwc" -> Lwc_resetGame(s)
    [] variant = "standalone" -> Sa_resetGame(s)
    [] variant = "ai" -> Ai_resetGame(s)

\* The fields a reset leaves, the board apart.
FreshSetup(s) ==
  /\ s.gameState = "setup"
  /\ s.teams = <<>>
  /\ s.selectedQuestion = Null
  /\ s.showAnswer = FALSE
  /\ s.answeredQuestions = {}
  /\ s.currentTeam = 0

\* C9: a reset is accepted in every session state, and it results in Setup
\* with teams empty, the board discarded, no selection, no reveal, nothing
\* answered and turn 0.
ResetFromAnyState ==
  /\ "reset" \in Render
  /\ lastOp.op = "reset" => (FreshSetup(Fields) /\ categories = <<>>)

\* C10: between a start and the next reset the answered set never loses an
\* element: a step leaves it unchanged or adds exactly the key of the
\* question being resolved.
AnsweredSetOnlyGrows ==
  [][lastOp'.op \notin {"start", "reset"} =>
       \/ answeredQuestions' = answeredQuestions
       \/ /\ lastOp'.op = "answer"
          /\ selectedQuestion # Null
          /\ answeredQuestions' = answeredQuestions \cup {selectedQuestion.key}
    ]_vars

\* C10 witness: a second question was resolved and both are in the set.
AnsweredSetOnlyGrows_Witness ==
  /\ lastOp.op = "answer"
  /\ Cardinality(answeredQuestions) = 2

\* C11: the session state changes only from Setup to Playing (static
\* components, in the one step of start), from Setup to Generating and from
\* Generating to Playing or Setup (generative component), and from any state
\* to Setup by reset; so a static component is never Generating and Playing
\* is left by reset alone.
SessionStateTransitions ==
  [][gameState' # gameState =>
       \/ /\ gameState = "setup" /\ gameState' = "playing"
          /\ variant # "ai" /\ lastOp'.op = "start"
       \/ /\ gameState = "setup" /\ gameState' = "generating"
          /\ variant = "ai" /\ lastOp'.op = "start"
       \/ /\ gameState = "generating" /\ gameState' \in {"playing", "setup"}
          /\ variant = "ai" /\ lastOp'.op = "response"
       \/ /\ gameState' = "setup" /\ lastOp'.op = "reset"
    ]_vars

\* C11 witness: the generative component went from Generating to Playing
\* on the outcome of its request.
SessionStateTransitions_Witness ==
  /\ variant = "ai"
  /\ lastOp.op = "response"
  /\ lastOp.from.gameState = "generating"
  /\ gameState = "playing"
  /\ Len(categories) = 5

\* The controls that act on the board or on the question on screen.
BoardControls == {"board", "showAnswerButton", "correct", "wrong"}

\* C12: while the session is Generating, every board input (select, reveal,
\* mark correct or incorrect, cancel) is rejected or ignored: no control for
\* it is offered, the key handler assigns nothing, and no step that arrives
\* changes the selection, the reveal, the answered set, the scores or the
\* turn.
GeneratingIgnoresBoardInputs ==
  /\ [](gameState = "generating" =>
          /\ Render \cap BoardControls = {}
          /\ Ai_handleKeyPress(Fields, "Escape") = Fields)
  /\ [][(gameState = "generating" /\
         lastOp'.op \in {"click", "showAnswer", "answer", "key"}) =>
          UNCHANGED <<selectedQuestion, showAnswer, answeredQuestions, teams,
                      currentTeam>>
       ]_vars

\* C12 witness: Escape was pressed while the session was Generating, and it
\* still is.
GeneratingIgnoresBoardInputs_Witness ==
  /\ lastOp.op = "key"
  /\ lastOp.arg = "Escape"
  /\ lastOp.from.gameState = "generating"
  /\ gameState = "generating"
  /\ pending = 1

\* C13: at most one generation request is outstanding at any time; a
\* request is issued only by a start from Setup, one per start, and the
\* outcome of a request, failed or not, issues no other.
OneRequestPerStart ==
  [][/\ pending' <= 1
     /\ pending' > pending =>
          /\ lastOp'.op = "start"
          /\ gameState = "setup"
          /\ pending' = pending + 1
     /\ (lastOp'.op = "start" /\ variant = "ai") => pending' = pending + 1
     /\ lastOp'.op = "response" => pending' = pending - 1
    ]_vars

\* C13 witness: a request failed, the session is back in Setup and no
\* request is outstanding.
OneRequestPerStart_Witness ==
  /\ lastOp.op = "response"
  /\ alertMsg # ""
  /\ gameState = "setup"
  /\ pending = 0

\* C14: whenever teams is not empty, 0 <= currentTeam < number of teams,
\* also while Generating and after a failed generation.
TurnIndexInRange ==
  teams # <<>> => (0 <= currentTeam /\ currentTeam < Len(teams))

\* C14 witness: the last of three teams has the turn after two resolutions.
TurnIndexInRange_Witness ==
  /\ lastOp.op = "answer"
  /\ Len(teams) = 3
  /\ currentTeam = 2
  /\ Cardinality(answeredQuestions) = 2

\* C15: whenever a question is selected the session is Playing and the
\* selected question is not in the answered set.
SelectionOnlyWhilePlayingUnanswered ==
  selectedQuestion # Null =>
    /\ gameState = "playing"
    /\ selectedQuestion.key \notin answeredQuestions

\* C15 witness: a question is selected and revealed while another one is
\* already answered.
SelectionOnlyWhilePlayingUnanswered_Witness ==
  /\ selectedQuestion # Null
  /\ showAnswer
  /\ Cardinality(answeredQuestions) = 1

\* The answered flag of a question of the Lightning component's board; the
\* flag is absent until handleAnswer sets it.
AnsweredFlag(question) ==
  "answered" \in DOMAIN question /\ question.answered

\* C16: in the Lightning component, which keeps an answered flag on each
\* question, the flag of a question is true exactly when its id is in the
\* answered set, also after a reset and a new start.
AnsweredFlagMatchesSet ==
  variant = "lwc" =>
    \A c \in 1..Len(categories) :
      \A q \in 1..Len(categories[c].questions) :
        AnsweredFlag(categories[c].questions[q]) <=>
          categories[c].questions[q].id \in answeredQuestions

\* C16 witness: the first question of the second category was resolved; it
\* carries the flag and is the one key of the set, and the first question of
\* the first category carries no flag.
AnsweredFlagMatchesSet_Witness ==
  /\ variant = "lwc"
  /\ lastOp.op = "answer"
  /\ answeredQuestions = {<<"1", "-", "0">>}
  /\ AnsweredFlag(categories[2].questions[1])
  /\ ~AnsweredFlag(categories[1].questions[1])

\* The session has just entered Playing: by start in a static component, by
\* the outcome of the request in the generative one.
JustStartedPlaying ==
  /\ gameState = "playing"
  /\ \/ variant # "ai" /\ lastOp.op = "start"
     \/ variant = "ai" /\ lastOp.op = "response"

\* C17: a start yields a Playing session, at once in the static
\* components, with turn 0, nothing answered, no selection and no reveal,
\* whatever earlier sessions left behind.
StartYieldsFreshPlaying ==
  /\ (lastOp.op = "start" /\ variant # "ai") => gameState = "playing"
  /\ JustStartedPlaying =>
       /\ currentTeam = 0
       /\ answeredQuestions = {}
       /\ selectedQuestion = Null
       /\ showAnswer = FALSE
       /\ \A i \in 1..Len(teams) : teams[i].score = 0

\* C17 witness: a static component was started with three teams.
StartYieldsFreshPlaying_Witness ==
  /\ variant = "standalone"
  /\ lastOp.op = "start"
  /\ gameState = "playing"
  /\ Len(teams) = 3

\* C18: between a start and the next reset the number of teams does not
\* change: no select, reveal, cancel or resolution step changes it, and it
\* is within 1..6 while Playing.
TeamCountFixedInSession ==
  [][/\ lastOp'.op \notin {"start", "reset"} => Len(teams') = Len(teams)
     /\ gameState' = "playing" => (1 <= Len(teams') /\ Len(teams') <= 6)
    ]_vars

\* C18 witness: six teams are playing and a question has been resolved.
TeamCountFixedInSession_Witness ==
  /\ gameState = "playing"
  /\ lastOp.op = "answer"
  /\ Len(teams) = 6
  /\ currentTeam = 1

\* The ids of the questions of the installed board.
BoardKeys ==
  IF categories = Undefined THEN {}
  ELSE UNION {{QuestionKey(c - 1, q - 1) : q \in 1..Len(categories[c].questions)} :
                c \in 1..Len(categories)}

\* C19: the answered set holds only ids of questions of the installed
\* board, so it is empty whenever no board is installed.
AnsweredWithinBoard ==
  answeredQuestions \subseteq BoardKeys

\* C19 witness: the generated board of four categories is installed and
\* two of its questions are answered.
AnsweredWithinBoard_Witness ==
  /\ variant = "ai"
  /\ Len(categories) = 4
  /\ Cardinality(answeredQuestions) = 2
  /\ Cardinality(BoardKeys) = 20

\* The controls on screen when the fields are s.
RenderOf(s) ==
  CASE variant = "lwc" -> Lwc_render(s)
    [] variant = "standalone" -> Sa_render(s)
    [] variant = "ai" -> Ai_render(s)

\* What a click on the question at category c, position q makes of s.
ClickResult(s, c, q) ==
  CASE variant = "lwc" ->
         Lwc_handleQuestionClick(s, s.categories[c + 1].questions[q + 1].id)
    [] variant = "standalone" -> Sa_handleQuestionClick(s, c, q)
    [] variant = "ai" -> Ai_handleQuestionClick(s, c, q)

\* What the reveal button makes of s.
RevealResult(s) ==
  CASE variant = "lwc" -> Lwc_handleShowAnswer(s)
    [] variant = "standalone" -> Sa_setShowAnswer(s)
    [] variant = "ai" -> Ai_setShowAnswer(s)

\* What a resolution makes of s.
AnswerResult(s, isCorrect) ==
  CASE variant = "lwc" -> Lwc_handleAnswer(s, isCorrect)
    [] variant = "standalone" -> Sa_handleAnswer(s, isCorrect)
    [] variant = "ai" -> Ai_handleAnswer(s, isCorrect)

\* From the fields s, showing the board, the question at c, q can be
\* opened, revealed and resolved either way, and the session is then
\* still playing with the question answered.
CanSelectAndResolve(s, c, q) ==
  LET opened == ClickResult(s, c, q)
      revealed == RevealResult(opened)
  IN /\ "board" \in RenderOf(s)
     /\ opened.selectedQuestion # Null
     /\ "showAnswerButton" \in RenderOf(opened)
     /\ {"correct", "wrong"} \subseteq RenderOf(revealed)
     /\ \A isCorrect \in BOOLEAN :
          LET resolved == AnswerResult(revealed, isCorrect)
          IN /\ resolved.gameState = "playing"
             /\ QuestionKey(c, q) \in resolved.answeredQuestions
             /\ "reset" \in RenderOf(resolved)

\* C20: a playing session is never stuck: reset is on screen, and when
\* no question is open every unanswered question of the board can be
\* selected and resolved, after which the session is still playing.
PlayingNeverTerminal ==
  gameState = "playing" =>
    /\ "reset" \in Render
    /\ categories # Undefined
    /\ selectedQuestion = Null =>
         \A c \in 0..(Len(categories) - 1) :
           \A q \in 0..(Len(categories[c + 1].questions) - 1) :
             QuestionKey(c, q) \notin answeredQuestions =>
               CanSelectAndResolve(Fields, c, q)

\* C21: a resolution is terminal for its question.  Right after an answer
\* step the resolved id is in the answered set, nothing is selected and
\* the reveal is off; the question resolved was not answered before; and
\* until a reset each answered id stays answered and is never the
\* selection again, so it is scored at most once.
ResolutionIsTerminal ==
  /\ [](lastOp.op = "answer" =>
          /\ lastOp.from.selectedQuestion.key \in answeredQuestions
          /\ selectedQuestion = Null
          /\ showAnswer = FALSE)
  /\ [][/\ lastOp'.op = "answer" =>
             selectedQuestion.key \notin answeredQuestions
        /\ lastOp'.op # "reset" =>
             \A key \in answeredQuestions :
               /\ key \in answeredQuestions'
               /\ selectedQuestion' # Null => selectedQuestion'.key # key
       ]_vars

\* C21 witness: a question was resolved, and then the button of that
\* question was clicked again.
ResolutionIsTerminal_Witness ==
  /\ lastOp.op = "click"
  /\ lastOp.arg \in answeredQuestions
  /\ Cardinality(answeredQuestions) = 2
  /\ selectedQuestion = Null

\* The controls that mark the question on screen correct or wrong.
MarkControls == {"correct", "wrong"}

\* C22: a question is resolved only through select, reveal, resolve.  The
\* mark controls exist only while a question is selected and its answer
\* revealed, so with no selection or before the reveal no mark input
\* reaches the component; every answer step starts from a revealed
\* selection, and the answered set grows in answer steps only.
ResolutionOnlyAfterReveal ==
  /\ [](Render \cap MarkControls # {} =>
          (selectedQuestion # Null /\ showAnswer))
  /\ [][/\ lastOp'.op = "answer" =>
             (selectedQuestion # Null /\ showAnswer)
        /\ ~(answeredQuestions' \subseteq answeredQuestions) =>
             /\ lastOp'.op = "answer"
             /\ lastOp'.from.showAnswer
             /\ answeredQuestions' =
                  answeredQuestions \cup {lastOp'.from.selectedQuestion.key}
       ]_vars

\* C22 witness: a question was selected, then revealed, then marked wrong.
ResolutionOnlyAfterReveal_Witness ==
  /\ lastOp.op = "answer"
  /\ lastOp.arg = FALSE
  /\ lastOp.from.showAnswer
  /\ lastOp.from.selectedQuestion.key \in answeredQuestions
  /\ variant = "standalone"

\* C23: at most one question is in flight.  While a question is selected
\* the board is not on screen, so no select input for another question is
\* accepted: every click step starts with nothing selected, and a
\* selection is only ever cleared, never replaced by another.
OneQuestionInFlight ==
  /\ [](selectedQuestion # Null => "board" \notin Render)
  /\ [][/\ lastOp'.op = "click" => selectedQuestion = Null
        /\ selectedQuestion # Null =>
             \/ selectedQuestion' = selectedQuestion
             \/ selectedQuestion' = Null
       ]_vars

\* C23 witness: in the generative component a question is selected and
\* revealed while another question of the board is still unanswered.
OneQuestionInFlight_Witness ==
  /\ variant = "ai"
  /\ selectedQuestion # Null
  /\ showAnswer
  /\ lastOp.op = "showAnswer"
  /\ BoardKeys \ (answeredQuestions \cup {selectedQuestion.key}) # {}

\* C24: revealing the answer sets the reveal flag and changes nothing
\* else: the roster with its scores, the turn, the answered set, the
\* selection, the board and the session state stay as they were.
RevealChangesOnlyReveal ==
  [][lastOp'.op = "showAnswer" =>
       /\ showAnswer' = TRUE
       /\ UNCHANGED <<teams, currentTeam, answeredQuestions, selectedQuestion,
                      categories, gameState, numTeams>>
    ]_vars

\* C24 witness: the answer of a question was revealed after a correct
\* answer had given a team its score and moved the turn on.
RevealChangesOnlyReveal_Witness ==
  /\ lastOp.op = "showAnswer"
  /\ showAnswer
  /\ selectedQuestion # Null
  /\ currentTeam = 1
  /\ teams[1].score > 0

\* The position of the "}" that closes the "{" at position open of text,
\* 0 when nothing closes it.
RECURSIVE MatchingClose(_, _, _)
MatchingClose(text, i, depth) ==
  IF i > Len(text) THEN 0
  ELSE IF text[i] = "{" THEN MatchingClose(text, i + 1, depth + 1)
  ELSE IF text[i] = "}"
  THEN IF depth = 1 THEN i ELSE MatchingClose(text, i + 1, depth - 1)
  ELSE MatchingClose(text, i + 1, depth)

\* The first category object of the board text a body token stands for.
FirstObjectOf(tok) == tok \o ":{first}"

\* The first balanced {...} substring of text from position i on, Null
\* when there is none.  The text of a body token is balanced, and the
\* first balanced substring that starts inside it is its first category
\* object.
RECURSIVE FirstBalancedFrom(_, _)
FirstBalancedFrom(text, i) ==
  IF i > Len(text) THEN Null
  ELSE IF text[i] \in BodyTokens THEN [text |-> <<FirstObjectOf(text[i])>>]
  ELSE IF text[i] = "{" /\ MatchingClose(text, i + 1, 1) # 0
  THEN [text |-> SubSeq(text, i, MatchingClose(text, i + 1, 1))]
  ELSE FirstBalancedFrom(text, i + 1)

FirstBalanced(text) == FirstBalancedFrom(text, 1)

\* C25: the object parsed from the payload is its first balanced {...}
\* substring: what generateQuestions extracts is that substring, and when
\* that substring is a board the session is playing on it, whatever
\* commentary, braces included, follows it.
ExtractsFirstBalancedObject ==
  lastOp.op = "response" =>
    LET text == ResponseText(lastOp.arg)
    IN FirstBalanced(text) # Null =>
         /\ Ai_jsonMatch(text) = FirstBalanced(text)
         /\ Ai_jsonParse(FirstBalanced(text).text).ok =>
              /\ gameState = "playing"
              /\ categories = Ai_jsonParse(FirstBalanced(text).text).categories

\* The question values of a category, by question index.
StandardValues == <<200, 400, 600, 800, 1000>>

\* C26: every board installed in a playing session has, in each category,
\* the question values 200, 400, 600, 800, 1000 in that order.
BoardValuesAreStandard ==
  (gameState = "playing" /\ categories # Undefined) =>
    \A c \in 1..Len(categories) :
      [q \in 1..Len(categories[c].questions) |-> categories[c].questions[q].value]
        = StandardValues

\* Every outstanding fetch of generateQuestions settles: the promise
\* awaited resolves or rejects.
FairSpec == Spec /\ WF_vars(\E r \in Responses : Respond(r))

\* C27: a session that enters Generating leaves it once the request has
\* its outcome: after the outcome the session is not generating; it is
\* playing on exactly the board the provider produced when the generation
\* succeeded, and in setup when it failed.
GeneratingEnds ==
  /\ (gameState = "generating") ~> (gameState # "generating")
  /\ [](lastOp.op = "response" =>
          /\ gameState # "generating"
          /\ IF FailedGeneration(lastOp.arg)
             THEN gameState = "setup"
             ELSE /\ gameState = "playing"
                  /\ \E i \in 1..Len(ResponseText(lastOp.arg)) :
                       /\ ResponseText(lastOp.arg)[i] \in BodyTokens
                       /\ categories = BodyCategories(ResponseText(lastOp.arg)[i]))

\* The generative component is in setup after a failed generation: only
\* then does setup show a roster, left by the start that failed.
AfterFailedGeneration ==
  variant = "ai" /\ gameState = "setup" /\ teams # <<>>

\* The generation with outcome r succeeds: generateQuestions does not
\* throw and the payload carries a board of 5 categories of 5 questions.
SucceededGeneration(r) ==
  /\ ~Ai_generationThrows(r)
  /\ ~FailedGeneration(r)
  /\ ~WrongShapeResponse(r)

\* The board the payload of the succeeded generation r carries.
ProducedBoard(r) ==
  LET text == ResponseText(r)
  IN BodyCategories(text[CHOOSE i \in 1..Len(text) : text[i] \in BodyTokens])

\* The fields after a session started from s has its generation answered
\* by r.
StartedAndAnswered(s, r) ==
  Ai_generateQuestions_settle(Ai_startGame(s), r)

\* The fields s are those of a session just begun on the generated board
\* with n teams.
FreshGeneratedSession(s, n, board) ==
  /\ s.gameState = "playing"
  /\ Len(s.teams) = n
  /\ \A i \in 1..n : s.teams[i] = [name |-> "Team " \o ToString(i), score |-> 0]
  /\ s.currentTeam = 0
  /\ s.answeredQuestions = {}
  /\ s.selectedQuestion = Null
  /\ s.showAnswer = FALSE
  /\ s.categories = board

\* C28: every failed generation leaves the session restartable.  The
\* failure ends in setup with the team input and the start button on
\* screen, and from the setup state after a failure a start whose
\* generation succeeds, with or without a new team count typed first, gives
\* a playing session with clamp(n, 1, 6) zero-score teams, turn 0, nothing
\* answered and the new board.
RestartableAfterFailure ==
  /\ (lastOp.op = "response" /\ FailedGeneration(lastOp.arg)) =>
       /\ gameState = "setup"
       /\ {"teamInput", "startButton"} \subseteq Render
  /\ AfterFailedGeneration =>
       /\ {"teamInput", "startButton"} \subseteq Render
       /\ \A r \in Responses :
            SucceededGeneration(r) =>
              /\ numTeams \in 1..6
              /\ FreshGeneratedSession(StartedAndAnswered(Fields, r), numTeams,
                                       ProducedBoard(r))
              /\ \A value \in RawInputs :
                   FreshGeneratedSession(
                     StartedAndAnswered(Ai_setNumTeams(Fields, value), r),
                     RequestedTeams(value), ProducedBoard(r))

\* C29: every score is 0 when a session starts and never decreases while
\* it lasts, so no score is ever negative.
ScoresNeverDecrease ==
  /\ [](\A i \in 1..Len(teams) : teams[i].score >= 0)
  /\ [](lastOp.op = "start" => \A i \in 1..Len(teams) : teams[i].score = 0)
  /\ [][lastOp'.op \notin {"start", "reset"} =>
          /\ Len(teams') = Len(teams)
          /\ \A i \in 1..Len(teams) : teams'[i].score >= teams[i].score
       ]_vars

\* C30: in every playing state the turn is the number of answered
\* questions modulo the number of teams: the turn moves round-robin from
\* team 0, once per resolved question, and neither a cancellation nor the
\* selection of an answered question moves it.
TurnIsAnsweredCountModTeams ==
  gameState = "playing" =>
    /\ Len(teams) > 0
    /\ currentTeam = Cardinality(answeredQuestions) % Len(teams)

\* C30 witness: with two teams and two questions resolved the turn is back
\* at team 0, and the button of an answered question was then clicked.
TurnIsAnsweredCountModTeams_Witness ==
  /\ gameState = "playing"
  /\ lastOp.op = "click"
  /\ lastOp.arg \in answeredQuestions
  /\ Len(teams) = 2
  /\ Cardinality(answeredQuestions) = 2
  /\ currentTeam = 0

\* The sum of the scores of the roster ts.
RECURSIVE TotalScore(_)
TotalScore(ts) ==
  IF ts = <<>> THEN 0 ELSE Head(ts).score + TotalScore(Tail(ts))

\* The board positions whose ids are in the answered set.
AnsweredPositions ==
  IF categories = Undefined THEN {}
  ELSE {cq \in (0..4) \X (0..4) :
          /\ cq[1] < Len(categories)
          /\ cq[2] < Len(categories[cq[1] + 1].questions)
          /\ QuestionKey(cq[1], cq[2]) \in answeredQuestions}

\* The sum of the values of the questions at the positions ps.
RECURSIVE TotalValue(_)
TotalValue(ps) ==
  IF ps = {} THEN 0
  ELSE LET cq == CHOOSE x \in ps : TRUE
       IN QuestionValue(categories, cq[1], cq[2]) + TotalValue(ps \ {cq})

\* C31: the sum of the scores is the sum of the values of the questions
\* resolved as correct in the session: it is 0 at a start, grows by the
\* value of the question in a correct answer step and stays in every
\* other step short of a reset; hence it is at most the sum of the values
\* of the answered questions, and at most 15000.
ScoreSumIsCorrectValues ==
  /\ [](TotalScore(teams) <= TotalValue(AnsweredPositions))
  /\ [](TotalScore(teams) <= 15000)
  /\ [](lastOp.op = "start" => TotalScore(teams) = 0)
  /\ [][/\ lastOp'.op = "answer" =>
             TotalScore(teams') =
               TotalScore(teams) + (IF lastOp'.arg THEN SelectedValue ELSE 0)
        /\ lastOp'.op \notin {"answer", "start", "reset"} =>
             TotalScore(teams') = TotalScore(teams)
       ]_vars

\* C32: the answer is revealed only while a question is selected: with
\* nothing selected the reveal is off, and a click that selects a question
\* leaves its answer hidden.
RevealOnlyWhileSelected ==
  /\ [](selectedQuestion = Null => showAnswer = FALSE)
  /\ [][(lastOp'.op = "click" /\ selectedQuestion' # Null) => showAnswer' = FALSE]_vars

\* C32 witness: in the standalone component a revealed question was
\* cancelled with Escape, and nothing is selected now.
RevealOnlyWhileSelected_Witness ==
  /\ variant = "standalone"
  /\ lastOp.op = "key"
  /\ lastOp.arg = "Escape"
  /\ lastOp.from.showAnswer
  /\ selectedQuestion = Null
  /\ showAnswer = FALSE

\* The fields of the standalone component that correspond to the fields s
\* of the Lightning or the generative component: the same session state,
\* team names and scores, turn, selection, reveal and answered set, on the
\* standalone board.
AsStandalone(s) ==
  [s EXCEPT !.teams = [i \in 1..Len(s.teams) |->
                         [name |-> s.teams[i].name, score |-> s.teams[i].score]],
            !.categories = Sa_categories]

\* The Lightning component and the standalone component, in corresponding
\* states, offer the same controls and every input takes them to
\* corresponding states.
LwcStepsAsStandalone ==
  LET s == Fields
      t == AsStandalone(Fields)
  IN /\ Lwc_render(s) = Sa_render(t)
     /\ "teamInput" \in Lwc_render(s) =>
          \A value \in RawInputs :
            AsStandalone(Lwc_handleTeamChange(s, value)) = Sa_setNumTeams(t, value)
     /\ "startButton" \in Lwc_render(s) =>
          AsStandalone(Lwc_startGame(s)) = Sa_startGame(t)
     /\ "board" \in Lwc_render(s) =>
          \A c \in 0..(Len(s.categories) - 1) :
            \A q \in 0..(Len(s.categories[c + 1].questions) - 1) :
              AsStandalone(Lwc_handleQuestionClick(
                             s, s.categories[c + 1].questions[q + 1].id))
                = Sa_handleQuestionClick(t, c, q)
     /\ "showAnswerButton" \in Lwc_render(s) =>
          AsStandalone(Lwc_handleShowAnswer(s)) = Sa_setShowAnswer(t)
     /\ {"correct", "wrong"} \subseteq Lwc_render(s) =>
          \A isCorrect \in BOOLEAN :
            AsStandalone(Lwc_handleAnswer(s, isCorrect)) = Sa_handleAnswer(t, isCorrect)
     /\ \A key \in Keys :
          AsStandalone(Lwc_handleKeyPress(s, key)) = Sa_handleKeyPress(t, key)
     /\ "reset" \in Lwc_render(s) =>
          AsStandalone(Lwc_resetGame(s)) = Sa_resetGame(t)

\* A valid 5 x 5 board is installed in the playing generative component.
ValidBoardInstalled ==
  /\ gameState = "playing"
  /\ categories = BodyCategories("cats5x5")

\* The generative component on a valid board and the standalone component,
\* in corresponding states, offer the same controls and every input takes
\* them to corresponding states.
AiStepsAsStandalone ==
  LET s == Fields
      t == AsStandalone(Fields)
  IN /\ Ai_render(s) = Sa_render(t)
     /\ "board" \in Ai_render(s) =>
          \A c \in 0..4, q \in 0..4 :
            AsStandalone(Ai_handleQuestionClick(s, c, q)) = Sa_handleQuestionClick(t, c, q)
     /\ "showAnswerButton" \in Ai_render(s) =>
          AsStandalone(Ai_setShowAnswer(s)) = Sa_setShowAnswer(t)
     /\ {"correct", "wrong"} \subseteq Ai_render(s) =>
          \A isCorrect \in BOOLEAN :
            AsStandalone(Ai_handleAnswer(s, isCorrect)) = Sa_handleAnswer(t, isCorrect)
     /\ \A key \in Keys :
          AsStandalone(Ai_handleKeyPress(s, key)) = Sa_handleKeyPress(t, key)
     /\ AsStandalone(Ai_resetGame(s)) = Sa_resetGame(t)

\* C33: the implementations are equivalent.  The Lightning component
\* starts in the state that corresponds to the initial state of the
\* standalone component, and from corresponding states the two accept the
\* same inputs and reach corresponding states, so on every input sequence
\* they show the same session state, team names and scores, turn,
\* selection, reveal and answered set; the generative component does the
\* same from every state with a valid 5 x 5 board installed.
ImplementationsEquivalent ==
  /\ (variant = "lwc" /\ lastOp.op = "mount") =>
       AsStandalone(Fields) =
         [gameState |-> "setup", numTeams |-> 2, teams |-> <<>>, currentTeam |-> 0,
          selectedQuestion |-> Null, showAnswer |-> FALSE, answeredQuestions |-> {},
          categories |-> Sa_categories, isGenerating |-> FALSE]
  /\ variant = "lwc" => LwcStepsAsStandalone
  /\ (variant = "ai" /\ ValidBoardInstalled) => AiStepsAsStandalone

\* C33 witness: the Lightning component, two questions resolved and a
\* score on the board, after a correct answer.
ImplementationsEquivalent_Witness ==
  /\ variant = "lwc"
  /\ lastOp.op = "answer"
  /\ lastOp.arg = TRUE
  /\ Cardinality(answeredQuestions) = 2
  /\ TotalScore(teams) > 0

\* C34: disconnectedCallback removes the listener connectedCallback
\* registered: the component has one keydown listener on the document
\* while connected and none while disconnected, so a key press while it is
\* disconnected changes neither its selection nor its reveal.
ListenerRemovedOnDisconnect ==
  /\ [](Cardinality(listeners) = (IF connected THEN 1 ELSE 0))
  /\ [][(lastOp'.op = "key" /\ ~connected) =>
          UNCHANGED <<selectedQuestion, showAnswer>>]_vars

\* C35: the chosen team count outlives a session.  numTeams is 2 at
\* mount and changes in team-count inputs only, so neither a reset nor a
\* failed generation touches it; a session in progress has numTeams
\* teams and every start creates numTeams teams, so a start right after
\* a reset creates as many teams as the session before, and a start
\* with no input ever given creates 2.
TeamCountOutlivesReset ==
  /\ [](lastOp.op = "mount" => numTeams = 2)
  /\ [](gameState # "setup" => Len(teams) = numTeams)
  /\ [][/\ numTeams' # numTeams => lastOp'.op = "teamChange"
        /\ lastOp'.op = "reset" => (numTeams' = numTeams /\ numTeams = Len(teams))
        /\ lastOp'.op = "start" => Len(teams') = numTeams
        /\ (lastOp.op = "reset" /\ lastOp'.op = "start") => Len(teams') = numTeams
        /\ (lastOp.op = "mount" /\ lastOp'.op = "start") => Len(teams') = 2
       ]_vars

\* C35 witness: a session of six teams was reset, and the team count is
\* still six.
TeamCountOutlivesReset_Witness ==
  /\ lastOp.op = "reset"
  /\ lastOp.from.gameState = "playing"
  /\ numTeams = 6
  /\ teams = <<>>
  /\ variant = "lwc"

\* C36: in the record-lookup components, under any interleaving of fetches
\* and responses, isLoading is true exactly while a call is outstanding; once
\* no call is outstanding the outcome on display is that of the call made
\* last; and a fetch with an empty id makes no call and leaves isLoading as
\* it was.
LoadingTracksOutstanding ==
  [](variant \in Lookups => (lookup.isLoading <=> requests # {}))

LatestRequestShown ==
  []((variant \in Lookups /\ requests = {} /\ issued > 0) => shownFor = issued)

EmptyIdFetchIsIdle ==
  [][(variant \in Lookups /\ lastOp'.op = "fetch" /\ lastOp'.arg = <<>>)
       => (requests' = requests /\ issued' = issued
           /\ lookup'.isLoading = lookup.isLoading)]_vars

LookupShowsLatestRequest ==
  LoadingTracksOutstanding /\ LatestRequestShown /\ EmptyIdFetchIsIdle

====
